---- MODULE Spec2Model ----
(***************************************************************************)
(* Model of meow, a terminal client for SQL Server.                        *)
(*                                                                         *)
(* Nine specifications share the variables below:                          *)
(*   Spec      the interaction loop (run_loop / handle_key): submissions,  *)
(*             statement execution, result navigation and scrolling;      *)
(*   SpecTree  the object browser: flatten_tree, get_flat_node_mut and the *)
(*             sidebar keys of handle_key, over a bounded set of trees;   *)
(*   SpecAsm   the result assembler of execute_query over a bounded set of *)
(*             event streams;                                              *)
(*   SpecHist  the history operations of App (push_history, history_prev,  *)
(*             history_next) over the texts an editor can hold;            *)
(*   SpecCmd   submissions of one text per session, over a bounded set of  *)
(*             command lines, and with them parse and to_action;           *)
(*   SpecAuto  the editor pane of handle_key one key at a time, with the   *)
(*             autocomplete popup and the cursor of the text widget;       *)
(*   SpecMain  main with cli::run and tui::run, up to the exit status of   *)
(*             the process;                                                *)
(*   SpecDate  execute_query on one row holding a legacy DateTime, for     *)
(*             every day count within the bounds;                          *)
(*   SpecScaled  execute_query on one row holding a Date, a DateTime2 or a *)
(*             DateTimeOffset.                                             *)
(*                                                                         *)
(* A text is a sequence of strings: one element per character for texts    *)
(* the code inspects (editor text, command arguments), one element for a   *)
(* literal the code only copies.  An Option is <<>> (None) or <<x>>.       *)
(***************************************************************************)
EXTENDS Integers, Sequences, FiniteSets, TLC

VARIABLES
    focus,              \* App.focus
    sidebar_visible,    \* App.sidebar_visible
    editor,             \* App.editor, as the text get_editor_text returns
    result,             \* App.result
    objects,            \* App.objects
    result_scroll,      \* App.result_scroll
    result_col_scroll,  \* App.result_col_scroll
    sidebar_scroll,     \* App.sidebar_scroll
    current_database,   \* App.current_database
    query_running,      \* App.query_running
    history,            \* App.history
    history_index,      \* App.history_index
    current_result_set, \* App.current_result_set
    expanded_mode,      \* App.expanded_mode
    show_timing,        \* App.show_timing
    pc,                 \* position of run_loop: "poll", "executing", "exited",
                        \* "panicked"; of main and cli::run in SpecMain
    in_flight,          \* execute_query calls started and not yet returned
    stream,             \* the event stream handed to the assembler
    assembled,          \* what execute_query returned for stream, as an Option
    cursor,             \* App.editor's cursor: <<row, col>>, in characters
    autocomplete,       \* App.autocomplete
    show_help,          \* App.show_help
    mode,               \* what main runs: "tui", "cli_lines", "cli_file", "cli_pipe"
    exit_status         \* the status the process ended with, as an Option

vars == <<focus, sidebar_visible, editor, result, objects, result_scroll,
          result_col_scroll, sidebar_scroll, current_database, query_running,
          history, history_index, current_result_set, expanded_mode,
          show_timing, pc, in_flight, stream, assembled, cursor, autocomplete,
          show_help, mode, exit_status>>

----------------------------------------------------------------------------
(* Bounds *)

MaxEvents == 5          \* longest event stream given to the assembler
MaxServerRows == 2      \* most rows in one result set the session's server returns
MaxElapsed == 1         \* largest elapsed_ms the session observes
MaxHistory == 2         \* submissions of non-blank text per behaviour
MaxDbs == 2             \* database nodes in a tree
MaxSchemas == 1         \* schema nodes below a database
MaxTables == 1          \* table nodes below a schema
MaxSidebarScroll == 5   \* largest sidebar offset
MaxEntries == 3         \* history entries pushed in the history walk
MaxDaysBefore == 1500   \* days before 1900-01-01 a DateTime value reaches
MaxDaysAfter == 1600    \* days after 1900-01-01 a DateTime value reaches
MaxText == 3            \* characters in the buffer up to which keys add to it
MaxDayCount == 30       \* largest of the day counts from 0 a Date value takes
                        \* or move the cursor

None == <<>>
Some(x) == <<x>>

Min(a, b) == IF a < b THEN a ELSE b

\* saturating_sub(1)
SatDec(n) == IF n > 0 THEN n - 1 ELSE 0

----------------------------------------------------------------------------
(* Texts *)

IsWhitespace(c) == c \in {" ", "\t", "\n"}

RECURSIVE TrimStart(_)
TrimStart(s) ==
    IF s # <<>> /\ IsWhitespace(Head(s)) THEN TrimStart(Tail(s)) ELSE s

RECURSIVE TrimEnd(_)
TrimEnd(s) ==
    IF s # <<>> /\ IsWhitespace(s[Len(s)])
    THEN TrimEnd(SubSeq(s, 1, Len(s) - 1))
    ELSE s

Trim(s) == TrimEnd(TrimStart(s))

\* Mutant: only the space character separates the token from its argument.
RECURSIVE FirstSpace(_, _)
FirstSpace(s, i) ==
    IF i > Len(s) THEN 0
    ELSE IF s[i] = " " THEN i
    ELSE FirstSpace(s, i + 1)

\* Position of the first whitespace character of s, 0 when there is none.
RECURSIVE FirstWhitespace(_, _)
FirstWhitespace(s, i) ==
    IF i > Len(s) THEN 0
    ELSE IF IsWhitespace(s[i]) THEN i
    ELSE FirstWhitespace(s, i + 1)

----------------------------------------------------------------------------
(* commands.rs: the slash command parser and its actions *)

Cmd(kind, arg) == [kind |-> kind, arg |-> arg]

\* parse: Some(SlashCommand) or None
parse(input) ==
    LET trimmed == Trim(input)
        p       == FirstWhitespace(trimmed, 1)
        cmd     == IF p = 0 THEN trimmed ELSE SubSeq(trimmed, 1, p - 1)
        rest    == IF p = 0 THEN <<>> ELSE Trim(SubSeq(trimmed, p + 1, Len(trimmed)))
        arg     == IF p = 0 \/ rest = <<>> THEN None ELSE Some(rest)
    IN  IF trimmed = <<>> \/ Head(trimmed) # "\\" THEN None
        ELSE CASE cmd = <<"\\", "d">> ->
                    IF arg # None THEN Some(Cmd("Describe", arg[1]))
                    ELSE Some(Cmd("ListAll", <<>>))
               [] cmd = <<"\\", "d", "t">> -> Some(Cmd("ListTables", <<>>))
               [] cmd = <<"\\", "d", "v">> -> Some(Cmd("ListViews", <<>>))
               [] cmd = <<"\\", "d", "i">> -> Some(Cmd("ListIndexes", <<>>))
               [] cmd = <<"\\", "d", "f">> -> Some(Cmd("ListFunctions", <<>>))
               [] cmd = <<"\\", "d", "s">> -> Some(Cmd("ListSchemas", <<>>))
               [] cmd = <<"\\", "d", "n">> -> Some(Cmd("ListDatabases", <<>>))
               [] cmd = <<"\\", "c">> ->
                    IF arg # None THEN Some(Cmd("UseDatabase", arg[1])) ELSE None
               [] cmd = <<"\\", "c", "o", "n", "n", "i", "n", "f", "o">> ->
                    Some(Cmd("ConnInfo", <<>>))
               [] cmd = <<"\\", "x">> -> Some(Cmd("ToggleExpanded", <<>>))
               [] cmd = <<"\\", "t", "i", "m", "i", "n", "g">> ->
                    Some(Cmd("ToggleTiming", <<>>))
               [] cmd = <<"\\", "?">> -> Some(Cmd("Help", <<>>))
               [] cmd = <<"\\", "q">> -> Some(Cmd("Quit", <<>>))
               [] OTHER -> None

\* Mutant: the table name is embedded as it is.
DoubleQuotesNone(s) == s

\* table.replace('\'', "''")
RECURSIVE DoubleQuotes(_)
DoubleQuotes(s) ==
    IF s = <<>> THEN <<>>
    ELSE (IF Head(s) = "'" THEN <<"'", "'">> ELSE <<Head(s)>>) \o DoubleQuotes(Tail(s))

ExecuteSql(sql) == [kind |-> "ExecuteSql", sql |-> sql, columns |-> <<>>, rows |-> <<>>]
DisplayMessage(columns, rows) ==
    [kind |-> "DisplayMessage", sql |-> <<>>, columns |-> columns, rows |-> rows]
PlainAction(kind) == [kind |-> kind, sql |-> <<>>, columns |-> <<>>, rows |-> <<>>]

HelpRows ==
    << << <<"\\d">>, <<"List all tables and views">> >>,
       << <<"\\d <table>">>, <<"Describe table columns">> >>,
       << <<"\\dt">>, <<"List tables only">> >>,
       << <<"\\dv">>, <<"List views only">> >>,
       << <<"\\di">>, <<"List indexes">> >>,
       << <<"\\df">>, <<"List procedures and functions">> >>,
       << <<"\\ds">>, <<"List schemas">> >>,
       << <<"\\dn">>, <<"List databases">> >>,
       << <<"\\c <db>">>, <<"Switch database">> >>,
       << <<"\\conninfo">>, <<"Show connection info">> >>,
       << <<"\\x">>, <<"Toggle expanded display">> >>,
       << <<"\\timing">>, <<"Toggle query timing display">> >>,
       << <<"\\?">>, <<"Show this help">> >>,
       << <<"\\q">>, <<"Quit">> >> >>

to_action(cmd, conn_info, database, user) ==
    CASE cmd.kind = "ListAll" -> ExecuteSql(
            <<"SELECT TABLE_SCHEMA, TABLE_NAME, TABLE_TYPE FROM INFORMATION_SCHEMA.TABLES ORDER BY TABLE_SCHEMA, TABLE_NAME">>)
      [] cmd.kind = "Describe" -> ExecuteSql(
            <<"SELECT COLUMN_NAME, DATA_TYPE, CHARACTER_MAXIMUM_LENGTH, IS_NULLABLE, COLUMN_DEFAULT FROM INFORMATION_SCHEMA.COLUMNS WHERE TABLE_NAME = ", "'">>
            \o DoubleQuotes(cmd.arg) \o <<"'", " ORDER BY ORDINAL_POSITION">>)
      [] cmd.kind = "ListTables" -> ExecuteSql(
            <<"SELECT TABLE_SCHEMA, TABLE_NAME, TABLE_TYPE FROM INFORMATION_SCHEMA.TABLES WHERE TABLE_TYPE = 'BASE TABLE' ORDER BY TABLE_SCHEMA, TABLE_NAME">>)
      [] cmd.kind = "ListViews" -> ExecuteSql(
            <<"SELECT TABLE_SCHEMA, TABLE_NAME, TABLE_TYPE FROM INFORMATION_SCHEMA.TABLES WHERE TABLE_TYPE = 'VIEW' ORDER BY TABLE_SCHEMA, TABLE_NAME">>)
      [] cmd.kind = "ListIndexes" -> ExecuteSql(
            <<"SELECT t.name AS table_name, i.name AS index_name, i.type_desc, i.is_unique, i.is_primary_key FROM sys.indexes i JOIN sys.tables t ON i.object_id = t.object_id WHERE i.name IS NOT NULL ORDER BY t.name, i.name">>)
      [] cmd.kind = "ListFunctions" -> ExecuteSql(
            <<"SELECT ROUTINE_SCHEMA, ROUTINE_NAME, ROUTINE_TYPE FROM INFORMATION_SCHEMA.ROUTINES ORDER BY ROUTINE_SCHEMA, ROUTINE_NAME">>)
      [] cmd.kind = "ListSchemas" -> ExecuteSql(
            <<"SELECT schema_id, name FROM sys.schemas WHERE principal_id = 1 ORDER BY name">>)
      [] cmd.kind = "ListDatabases" -> ExecuteSql(
            <<"SELECT name, state_desc, recovery_model_desc FROM sys.databases ORDER BY name">>)
      [] cmd.kind = "UseDatabase" -> ExecuteSql(<<"USE ">> \o cmd.arg)
      [] cmd.kind = "ConnInfo" -> DisplayMessage(
            << <<"Property">>, <<"Value">> >>,
            << << <<"Server">>, conn_info >>,
               << <<"Database">>, database >>,
               << <<"User">>, user >> >>)
      [] cmd.kind = "ToggleExpanded" -> PlainAction("ToggleExpanded")
      [] cmd.kind = "ToggleTiming" -> PlainAction("ToggleTiming")
      [] cmd.kind = "Help" -> DisplayMessage(
            << <<"Command">>, <<"Description">> >>, HelpRows)
      [] cmd.kind = "Quit" -> PlainAction("Quit")

----------------------------------------------------------------------------
(* app.rs: the result model *)

ResultSet(columns, rows) == [columns |-> columns, rows |-> rows]

QueryResult(result_sets, elapsed_ms, error) ==
    [result_sets |-> result_sets, elapsed_ms |-> elapsed_ms, error |-> error]

\* QueryResult::default()
DefaultResult == QueryResult(<<>>, 0, None)

\* QueryResult::rows_for
rows_for(r, index) ==
    IF index + 1 <= Len(r.result_sets) THEN r.result_sets[index + 1].rows ELSE <<>>

\* QueryResult::columns_for
columns_for(r, index) ==
    IF index + 1 <= Len(r.result_sets) THEN r.result_sets[index + 1].columns ELSE <<>>

----------------------------------------------------------------------------
(* db/query.rs: the value decoder and the result assembler *)

\* Integer division of Rust: the quotient is rounded towards zero
TruncDiv(a, b) == IF a >= 0 THEN a \div b ELSE -((-a) \div b)

\* Mutant: every fourth year of the era is taken as a leap year.
year_of_era_julian(doe) == (doe - doe \div 1460) \div 365

\* let yoe = (doe - doe / 1460 + doe / 36524 - doe / 146096) / 365
year_of_era(doe) ==
    (doe - doe \div 1460 + doe \div 36524 - doe \div 146096) \div 365

\* days_to_ymd: <<year, month, day>> for a count of days since 1970-01-01
days_to_ymd(unix_days) ==
    LET z   == unix_days + 719468
        era == IF z >= 0 THEN TruncDiv(z, 146097) ELSE TruncDiv(z - 146096, 146097)
        doe == z - era * 146097
        yoe == year_of_era(doe)
        y   == yoe + era * 400
        doy == doe - (365 * yoe + yoe \div 4 - yoe \div 100)
        mp  == (5 * doy + 2) \div 153
        d   == doy - (153 * mp + 2) \div 5 + 1
        m   == IF mp < 10 THEN mp + 3 ELSE mp - 9
    IN  << IF m <= 2 THEN y + 1 ELSE y, m, d >>

DigitChars == <<"0", "1", "2", "3", "4", "5", "6", "7", "8", "9">>

\* The decimal digits of a natural number
RECURSIVE decimal(_)
decimal(n) ==
    IF n < 10 THEN <<DigitChars[n + 1]>>
    ELSE Append(decimal(n \div 10), DigitChars[(n % 10) + 1])

\* {:0width$}: zeros after the sign up to the width
format_padded(n, width) ==
    LET digits == decimal(IF n < 0 THEN -n ELSE n)
        sign   == IF n < 0 THEN <<"-">> ELSE <<>>
        fill   == width - Len(sign) - Len(digits)
    IN  sign \o [i \in 1..(IF fill > 0 THEN fill ELSE 0) |-> "0"] \o digits

\* The DateTime arm of format_sql_value: days since 1900-01-01 and ticks of
\* 1/300 s since midnight.  total_secs is ticks / 300.0; its casts to u32
\* truncate, which for these magnitudes is the integer quotient.
format_legacy_datetime(days, seconds_fragments) ==
    LET unix_days == -25567 + days
        ymd       == days_to_ymd(unix_days)
        hours     == seconds_fragments \div (300 * 3600)
        mins      == (seconds_fragments % (300 * 3600)) \div (300 * 60)
        secs      == (seconds_fragments % (300 * 60)) \div 300
    IN  format_padded(ymd[1], 4) \o <<"-">> \o format_padded(ymd[2], 2) \o <<"-">>
        \o format_padded(ymd[3], 2) \o <<" ">> \o format_padded(hours, 2) \o <<":">>
        \o format_padded(mins, 2) \o <<":">> \o format_padded(secs, 2)

\* 10f64.powi(n) for n >= 0
RECURSIVE Pow10(_)
Pow10(n) == IF n = 0 THEN 1 ELSE 10 * Pow10(n - 1)

\* The Date arm: days_to_ymd(d.days() - 719163), as YYYY-MM-DD
format_date(d) ==
    LET ymd == days_to_ymd(d.days - 719163)
    IN  format_padded(ymd[1], 4) \o <<"-">> \o format_padded(ymd[2], 2) \o <<"-">>
        \o format_padded(ymd[3], 2)

\* total_secs and frac of the DateTime2 and DateTimeOffset arms.  The code
\* computes nanos = increments * 10^(9 - scale) in f64, exact for the values
\* of a day, then total_secs = nanos / 10^9 and frac = nanos % 10^9 as u64;
\* the quotient and the remainder are taken here before the scaling, which
\* gives the same two numbers and stays within the checker's integers.
time_of_day(t) ==
    [total_secs |-> t.increments \div Pow10(t.scale),
     frac       |-> (t.increments % Pow10(t.scale)) * Pow10(9 - t.scale)]

\* {:02}:{:02}:{:02} of total_secs
format_hms(total_secs) ==
    format_padded(total_secs \div 3600, 2) \o <<":">>
    \o format_padded((total_secs % 3600) \div 60, 2) \o <<":">>
    \o format_padded(total_secs % 60, 2)

\* The DateTime2 arm: the fraction is written, as frac / 100 in seven digits,
\* when it is not zero
format_datetime2(dt2) ==
    LET tod == time_of_day(dt2.time)
    IN  format_date(dt2.date) \o <<" ">> \o format_hms(tod.total_secs)
        \o (IF tod.frac > 0
            THEN <<".">> \o format_padded(tod.frac \div 100, 7) ELSE <<>>)

\* The DateTimeOffset arm: date and time of its datetime2 without any
\* fraction, then the sign of the offset and |offset| as HH:MM
format_datetimeoffset(dto) ==
    LET tod        == time_of_day(dto.datetime2.time)
        abs_offset == IF dto.offset >= 0 THEN dto.offset ELSE -dto.offset
    IN  format_date(dto.datetime2.date) \o <<" ">> \o format_hms(tod.total_secs)
        \o <<" ", IF dto.offset >= 0 THEN "+" ELSE "-">>
        \o format_padded(abs_offset \div 60, 2) \o <<":">>
        \o format_padded(abs_offset % 60, 2)

\* Wire values: [type, val] with val an Option.
format_sql_value(val) ==
    IF val.val = None THEN <<"NULL">>
    ELSE CASE val.type = "I32" -> <<ToString(val.val[1])>>
           [] val.type = "Bit" -> IF val.val[1] THEN <<"true">> ELSE <<"false">>
           [] val.type = "String" -> val.val[1]
           [] val.type = "DateTime" ->
                format_legacy_datetime(val.val[1].days, val.val[1].seconds_fragments)
           [] val.type = "Date" -> format_date(val.val[1])
           [] val.type = "DateTime2" -> format_datetime2(val.val[1])
           [] val.type = "DateTimeOffset" -> format_datetimeoffset(val.val[1])

RECURSIVE format_row(_)
format_row(vals) ==
    IF vals = <<>> THEN <<>>
    ELSE <<format_sql_value(Head(vals))>> \o format_row(Tail(vals))

\* Mutant: the buffer counts as empty while it has no rows.
BufferNonEmptyRowsOnly(st) == st.current_rows # <<>>

\* The buffer is sealed when it has columns or rows.
BufferNonEmpty(st) == st.current_columns # <<>> \/ st.current_rows # <<>>

\* Mutant: the buffer is sealed whether or not it holds anything.
SealAlways(st) ==
    Append(st.result_sets, ResultSet(st.current_columns, st.current_rows))

Seal(st) ==
    IF BufferNonEmpty(st)
    THEN Append(st.result_sets, ResultSet(st.current_columns, st.current_rows))
    ELSE st.result_sets

\* Mutant: a message is appended as a row without cells.
AssembleItemMessageAsRow(st, item) ==
    CASE item.kind = "Metadata" ->
            [result_sets     |-> Seal(st),
             current_columns |-> item.columns,
             current_rows    |-> IF BufferNonEmpty(st) THEN <<>> ELSE st.current_rows]
      [] item.kind = "Row" ->
            [result_sets     |-> st.result_sets,
             current_columns |-> IF st.current_columns = <<>>
                                 THEN item.columns ELSE st.current_columns,
             current_rows    |-> Append(st.current_rows, format_row(item.vals))]
      [] item.kind = "Message" ->
            [st EXCEPT !.current_rows = Append(st.current_rows, <<>>)]

\* One iteration of the while-let loop of execute_query.
AssembleItem(st, item) ==
    CASE item.kind = "Metadata" ->
            [result_sets     |-> Seal(st),
             current_columns |-> item.columns,
             current_rows    |-> IF BufferNonEmpty(st) THEN <<>> ELSE st.current_rows]
      [] item.kind = "Row" ->
            [result_sets     |-> st.result_sets,
             current_columns |-> IF st.current_columns = <<>>
                                 THEN item.columns ELSE st.current_columns,
             current_rows    |-> Append(st.current_rows, format_row(item.vals))]
      [] item.kind = "Message" -> st

RECURSIVE AssembleFrom(_, _, _)
AssembleFrom(events, i, st) ==
    IF i > Len(events) THEN st
    ELSE AssembleFrom(events, i + 1, AssembleItem(st, events[i]))

Ok(v) == [ok |-> TRUE, value |-> v, err |-> <<>>]
Err(e) == [ok |-> FALSE, value |-> DefaultResult, err |-> e]

\* Mutant: when the stream fails, what was assembled before the failure is
\* returned together with the error.
execute_query_keeps_partial(s, elapsed_ms) ==
    LET st == AssembleFrom(s.events, 1,
                [result_sets |-> <<>>, current_columns |-> <<>>,
                 current_rows |-> <<>>])
    IN  Ok(QueryResult(Seal(st), elapsed_ms,
                       IF s.fails THEN Some(<<"stream error">>) ELSE None))

\* execute_query on a stream [events, fails]: the stream yields events and
\* then ends, or fails after them (try_next returns Err, propagated by ?).
execute_query(s, elapsed_ms) ==
    IF s.fails THEN Err(<<"stream error">>)
    ELSE LET st == AssembleFrom(s.events, 1,
                     [result_sets |-> <<>>, current_columns |-> <<>>,
                      current_rows |-> <<>>])
         IN  Ok(QueryResult(Seal(st), elapsed_ms, None))


----------------------------------------------------------------------------
(* app.rs: the object tree *)

ObjectNode(name, depth, expanded, children) ==
    [name |-> name, depth |-> depth, expanded |-> expanded, children |-> children]

\* Mutant: descends into the children of collapsed nodes too.
RECURSIVE flatten_tree_inner_all(_, _)
flatten_tree_inner_all(nodes, out) ==
    IF nodes = <<>> THEN out
    ELSE LET node == Head(nodes)
             out1 == Append(out, <<node.depth, node.name, node.expanded,
                                   node.children # <<>>>>)
         IN  flatten_tree_inner_all(Tail(nodes),
                                    flatten_tree_inner_all(node.children, out1))

\* flatten_tree_inner: pushes (depth, name, expanded, has_children), then
\* descends into the children of an expanded node.
RECURSIVE flatten_tree_inner(_, _)
flatten_tree_inner(nodes, out) ==
    IF nodes = <<>> THEN out
    ELSE LET node == Head(nodes)
             out1 == Append(out, <<node.depth, node.name, node.expanded,
                                   node.children # <<>>>>)
             out2 == IF node.expanded
                     THEN flatten_tree_inner(node.children, out1)
                     ELSE out1
         IN  flatten_tree_inner(Tail(nodes), out2)

flatten_tree(nodes) == flatten_tree_inner(nodes, <<>>)

\* Mutant: the search descends into collapsed nodes too.
DescendsAlways(node) == TRUE

\* Whether the search descends into the children of node.
Descends(node) == node.expanded

\* get_flat_node_mut_inner from the k-th node of nodes on.  Returns the path
\* (child positions from the root) of the node found, as an Option, and the
\* counter idx as the loop leaves it.
RECURSIVE get_flat_node_mut_inner(_, _, _, _)
get_flat_node_mut_inner(nodes, k, target, idx) ==
    IF k > Len(nodes) THEN [found |-> None, idx |-> idx]
    ELSE IF idx = target THEN [found |-> Some(<<k>>), idx |-> idx]
    ELSE IF Descends(nodes[k])
         THEN LET r == get_flat_node_mut_inner(nodes[k].children, 1, target, idx + 1)
              IN  IF r.found # None
                  THEN [found |-> Some(<<k>> \o r.found[1]), idx |-> r.idx]
                  ELSE get_flat_node_mut_inner(nodes, k + 1, target, r.idx)
         ELSE get_flat_node_mut_inner(nodes, k + 1, target, idx + 1)

\* Mutant: the counter starts at 1, so the node found is the one a row above.
get_flat_node_mut_from_one(nodes, target) ==
    get_flat_node_mut_inner(nodes, 1, target, 1).found

get_flat_node_mut(nodes, target) == get_flat_node_mut_inner(nodes, 1, target, 0).found

\* Mutant: the node is expanded, never collapsed.
FlipExpandedSetsTrue(node) == [node EXCEPT !.expanded = TRUE]

\* node.expanded = !node.expanded
FlipExpanded(node) == [node EXCEPT !.expanded = ~node.expanded]

\* The tree with the node at path replaced by its flipped copy.
RECURSIVE FlipAt(_, _)
FlipAt(nodes, path) ==
    IF Len(path) = 1
    THEN [nodes EXCEPT ![path[1]] = FlipExpanded(nodes[path[1]])]
    ELSE [nodes EXCEPT ![path[1]] =
            [nodes[path[1]] EXCEPT !.children =
                FlipAt(nodes[path[1]].children, Tail(path))]]

\* App::toggle_sidebar_node, as a function of the tree and the flat index
toggle_sidebar_node(nodes, flat_index) ==
    LET found == get_flat_node_mut(nodes, flat_index)
    IN  IF found # None THEN FlipAt(nodes, found[1]) ELSE nodes


----------------------------------------------------------------------------
(* tui/autocomplete.rs: the keyword popup.  A line is a sequence of         *)
(* characters; the code reads it as UTF-8 bytes, so a character that is not *)
(* ASCII stands for more than one byte.                                     *)

\* The dictionary, in the order of the source
SQL_KEYWORDS ==
    <<
      <<"A", "L", "L">>,
      <<"A", "L", "T", "E", "R">>,
      <<"A", "N", "D">>,
      <<"A", "N", "Y">>,
      <<"A", "S">>,
      <<"A", "S", "C">>,
      <<"A", "V", "G">>,
      <<"B", "E", "G", "I", "N">>,
      <<"B", "E", "T", "W", "E", "E", "N">>,
      <<"B", "I", "G", "I", "N", "T">>,
      <<"B", "I", "N", "A", "R", "Y">>,
      <<"B", "I", "T">>,
      <<"B", "Y">>,
      <<"C", "A", "S", "E">>,
      <<"C", "A", "S", "T">>,
      <<"C", "A", "T", "C", "H">>,
      <<"C", "H", "A", "R", "I", "N", "D", "E", "X">>,
      <<"C", "H", "E", "C", "K">>,
      <<"C", "L", "U", "S", "T", "E", "R", "E", "D">>,
      <<"C", "O", "A", "L", "E", "S", "C", "E">>,
      <<"C", "O", "M", "M", "I", "T">>,
      <<"C", "O", "N", "S", "T", "R", "A", "I", "N", "T">>,
      <<"C", "O", "N", "V", "E", "R", "T">>,
      <<"C", "O", "U", "N", "T">>,
      <<"C", "R", "E", "A", "T", "E">>,
      <<"C", "R", "O", "S", "S">>,
      <<"C", "T", "E">>,
      <<"D", "A", "T", "A", "B", "A", "S", "E">>,
      <<"D", "A", "T", "E">>,
      <<"D", "A", "T", "E", "A", "D", "D">>,
      <<"D", "A", "T", "E", "D", "I", "F", "F">>,
      <<"D", "A", "T", "E", "T", "I", "M", "E">>,
      <<"D", "A", "T", "E", "T", "I", "M", "E", "2">>,
      <<"D", "A", "T", "E", "T", "I", "M", "E", "O", "F", "F", "S", "E", "T">>,
      <<"D", "E", "C", "I", "M", "A", "L">>,
      <<"D", "E", "C", "L", "A", "R", "E">>,
      <<"D", "E", "F", "A", "U", "L", "T">>,
      <<"D", "E", "L", "A", "Y">>,
      <<"D", "E", "L", "E", "T", "E">>,
      <<"D", "E", "L", "E", "T", "E", "D">>,
      <<"D", "E", "N", "S", "E", "_", "R", "A", "N", "K">>,
      <<"D", "E", "N", "Y">>,
      <<"D", "E", "S", "C">>,
      <<"D", "I", "S", "T", "I", "N", "C", "T">>,
      <<"D", "R", "O", "P">>,
      <<"E", "L", "S", "E">>,
      <<"E", "N", "D">>,
      <<"E", "X", "E", "C">>,
      <<"E", "X", "E", "C", "U", "T", "E">>,
      <<"E", "X", "I", "S", "T", "S">>,
      <<"F", "E", "T", "C", "H">>,
      <<"F", "L", "O", "A", "T">>,
      <<"F", "O", "R", "E", "I", "G", "N">>,
      <<"F", "O", "R", "M", "A", "T">>,
      <<"F", "R", "O", "M">>,
      <<"F", "U", "N", "C", "T", "I", "O", "N">>,
      <<"G", "E", "O", "G", "R", "A", "P", "H", "Y">>,
      <<"G", "E", "O", "M", "E", "T", "R", "Y">>,
      <<"G", "E", "T", "D", "A", "T", "E">>,
      <<"G", "O">>,
      <<"G", "R", "A", "N", "T">>,
      <<"G", "R", "O", "U", "P">>,
      <<"H", "A", "V", "I", "N", "G">>,
      <<"H", "I", "E", "R", "A", "R", "C", "H", "Y", "I", "D">>,
      <<"I", "D", "E", "N", "T", "I", "T", "Y">>,
      <<"I", "F">>,
      <<"I", "M", "A", "G", "E">>,
      <<"I", "N">>,
      <<"I", "N", "D", "E", "X">>,
      <<"I", "N", "F", "O", "R", "M", "A", "T", "I", "O", "N", "_", "S", "C", "H", "E", "M", "A">>,
      <<"I", "N", "N", "E", "R">>,
      <<"I", "N", "S", "E", "R", "T">>,
      <<"I", "N", "S", "E", "R", "T", "E", "D">>,
      <<"I", "N", "T">>,
      <<"I", "N", "T", "O">>,
      <<"I", "S">>,
      <<"I", "S", "N", "U", "L", "L">>,
      <<"J", "O", "I", "N">>,
      <<"K", "E", "Y">>,
      <<"L", "E", "F", "T">>,
      <<"L", "E", "N">>,
      <<"L", "I", "K", "E">>,
      <<"L", "O", "W", "E", "R">>,
      <<"L", "T", "R", "I", "M">>,
      <<"M", "A", "X">>,
      <<"M", "E", "R", "G", "E">>,
      <<"M", "I", "N">>,
      <<"M", "O", "N", "E", "Y">>,
      <<"N", "E", "X", "T">>,
      <<"N", "O", "T">>,
      <<"N", "T", "E", "X", "T">>,
      <<"N", "U", "L", "L">>,
      <<"N", "U", "L", "L", "I", "F">>,
      <<"N", "U", "M", "E", "R", "I", "C">>,
      <<"N", "V", "A", "R", "C", "H", "A", "R">>,
      <<"O", "F", "F", "S", "E", "T">>,
      <<"O", "N">>,
      <<"O", "N", "L", "Y">>,
      <<"O", "R">>,
      <<"O", "R", "D", "E", "R">>,
      <<"O", "U", "T", "E", "R">>,
      <<"O", "U", "T", "P", "U", "T">>,
      <<"O", "V", "E", "R">>,
      <<"P", "A", "R", "T", "I", "T", "I", "O", "N">>,
      <<"P", "R", "I", "M", "A", "R", "Y">>,
      <<"P", "R", "I", "N", "T">>,
      <<"P", "R", "O", "C", "E", "D", "U", "R", "E">>,
      <<"R", "A", "I", "S", "E", "R", "R", "O", "R">>,
      <<"R", "A", "N", "K">>,
      <<"R", "E", "A", "L">>,
      <<"R", "E", "F", "E", "R", "E", "N", "C", "E", "S">>,
      <<"R", "E", "P", "L", "A", "C", "E">>,
      <<"R", "E", "V", "O", "K", "E">>,
      <<"R", "I", "G", "H", "T">>,
      <<"R", "O", "L", "L", "B", "A", "C", "K">>,
      <<"R", "O", "W", "_", "N", "U", "M", "B", "E", "R">>,
      <<"R", "O", "W", "S">>,
      <<"R", "O", "W", "V", "E", "R", "S", "I", "O", "N">>,
      <<"R", "T", "R", "I", "M">>,
      <<"S", "C", "H", "E", "M", "A">>,
      <<"S", "E", "L", "E", "C", "T">>,
      <<"S", "E", "T">>,
      <<"S", "M", "A", "L", "L", "I", "N", "T">>,
      <<"S", "O", "M", "E">>,
      <<"S", "T", "R", "I", "N", "G", "_", "A", "G", "G">>,
      <<"S", "T", "U", "F", "F">>,
      <<"S", "U", "B", "S", "T", "R", "I", "N", "G">>,
      <<"S", "U", "M">>,
      <<"S", "Y", "S", "D", "A", "T", "E", "T", "I", "M", "E">>,
      <<"T", "A", "B", "L", "E">>,
      <<"T", "E", "X", "T">>,
      <<"T", "H", "E", "N">>,
      <<"T", "H", "R", "O", "W">>,
      <<"T", "I", "M", "E">>,
      <<"T", "I", "N", "Y", "I", "N", "T">>,
      <<"T", "O", "P">>,
      <<"T", "R", "A", "N", "S", "A", "C", "T", "I", "O", "N">>,
      <<"T", "R", "I", "G", "G", "E", "R">>,
      <<"T", "R", "I", "M">>,
      <<"T", "R", "U", "N", "C", "A", "T", "E">>,
      <<"T", "R", "Y">>,
      <<"U", "N", "I", "O", "N">>,
      <<"U", "N", "I", "Q", "U", "E">>,
      <<"U", "N", "I", "Q", "U", "E", "I", "D", "E", "N", "T", "I", "F", "I", "E", "R">>,
      <<"U", "P", "D", "A", "T", "E">>,
      <<"U", "P", "P", "E", "R">>,
      <<"U", "S", "E">>,
      <<"V", "A", "L", "U", "E", "S">>,
      <<"V", "A", "R", "B", "I", "N", "A", "R", "Y">>,
      <<"V", "A", "R", "C", "H", "A", "R">>,
      <<"V", "I", "E", "W">>,
      <<"W", "A", "I", "T", "F", "O", "R">>,
      <<"W", "H", "E", "N">>,
      <<"W", "H", "E", "R", "E">>,
      <<"W", "H", "I", "L", "E">>,
      <<"W", "I", "T", "H">>,
      <<"X", "M", "L">>,
      <<"s", "p", "_", "c", "o", "l", "u", "m", "n", "s">>,
      <<"s", "p", "_", "h", "e", "l", "p">>,
      <<"s", "p", "_", "w", "h", "o">>,
      <<"s", "y", "s">>
    >>

AsciiLower == <<"a", "b", "c", "d", "e", "f", "g", "h", "i", "j", "k", "l", "m", "n", "o", "p", "q", "r", "s", "t", "u", "v", "w", "x", "y", "z">>
AsciiUpper == <<"A", "B", "C", "D", "E", "F", "G", "H", "I", "J", "K", "L", "M", "N", "O", "P", "Q", "R", "S", "T", "U", "V", "W", "X", "Y", "Z">>
AsciiDigits == {"0", "1", "2", "3", "4", "5", "6", "7", "8", "9"}

\* The character U+00E9, two bytes in UTF-8
EAcute == "e-acute"

\* The upper case letter of each lower case letter
UpperOf ==
    [c \in {AsciiLower[i] : i \in 1..26} |->
        AsciiUpper[CHOOSE i \in 1..26 : AsciiLower[i] = c]]

\* char::to_ascii_uppercase
to_ascii_uppercase_char(c) == IF c \in DOMAIN UpperOf THEN UpperOf[c] ELSE c

\* str::to_ascii_uppercase
to_ascii_uppercase(s) == [i \in 1..Len(s) |-> to_ascii_uppercase_char(s[i])]

\* The UTF-8 encoding of one character
Utf8(c) == IF c = EAcute THEN <<"0xC3", "0xA9">> ELSE <<c>>

\* String::as_bytes
RECURSIVE as_bytes(_)
as_bytes(line) ==
    IF line = <<>> THEN <<>> ELSE Utf8(Head(line)) \o as_bytes(Tail(line))

\* The byte offset at which the characters after the first k of line start
ByteOffset(line, k) == Len(as_bytes(SubSeq(line, 1, k)))

\* str::is_char_boundary
is_char_boundary(line, b) == \E k \in 0..Len(line) : ByteOffset(line, k) = b

\* ch.is_ascii_alphanumeric() || ch == b'_'
is_word_byte(b) ==
    \/ b \in DOMAIN UpperOf
    \/ b \in {AsciiUpper[i] : i \in 1..26}
    \/ b \in AsciiDigits
    \/ b = "_"

\* The while loop of extract_current_word: bytes[start - 1] is the byte
\* before offset start
RECURSIVE word_start(_, _)
word_start(bytes, start) ==
    IF start > 0 /\ is_word_byte(bytes[start]) THEN word_start(bytes, start - 1)
    ELSE start

\* What a call that can panic gives: a value, or no return at all
Returned(v) == [panicked |-> FALSE, value |-> v]
Panicked(v) == [panicked |-> TRUE, value |-> v]

\* extract_current_word; col is used as a byte offset, and the slice
\* line[start..col] panics unless both ends are character boundaries
extract_current_word(ls, row, col) ==
    IF row >= Len(ls) THEN Returned(<<>>)
    ELSE LET line  == ls[row + 1]
             bytes == as_bytes(line)
             c     == Min(col, Len(bytes))
             start == word_start(bytes, c)
         IN  IF is_char_boundary(line, start) /\ is_char_boundary(line, c)
             THEN Returned(SubSeq(line,
                     (CHOOSE k \in 0..Len(line) : ByteOffset(line, k) = start) + 1,
                     CHOOSE k \in 0..Len(line) : ByteOffset(line, k) = c))
             ELSE Panicked(<<>>)

\* Autocomplete
Autocomplete(active, suggestions, selected, prefix) ==
    [active |-> active, suggestions |-> suggestions, selected |-> selected,
     prefix |-> prefix]

\* Autocomplete::default
AutocompleteDefault == Autocomplete(FALSE, <<>>, 0, <<>>)

\* Autocomplete::dismiss
dismiss(ac) == Autocomplete(FALSE, <<>>, 0, <<>>)

\* str::starts_with
starts_with(s, p) == Len(p) <= Len(s) /\ SubSeq(s, 1, Len(p)) = p

\* kw.to_ascii_uppercase(), for every keyword of the dictionary
SQL_KEYWORDS_UPPER ==
    [i \in 1..Len(SQL_KEYWORDS) |-> to_ascii_uppercase(SQL_KEYWORDS[i])]

\* The filter of update: the keywords whose upper case starts with the upper
\* case of the prefix, in dictionary order
matching_keywords(upper) ==
    LET Matches(i) == starts_with(SQL_KEYWORDS_UPPER[i], upper)
        found      == SelectSeq([i \in 1..Len(SQL_KEYWORDS) |-> i], Matches)
    IN  [j \in 1..Len(found) |-> SQL_KEYWORDS[found[j]]]

\* Mutant: the selection index is kept as it is when the list changes.
ClampSelectedKeeps(selected, len) == selected

\* self.selected.min(self.suggestions.len().saturating_sub(1))
ClampSelected(selected, len) == Min(selected, SatDec(len))

\* prefix.len() < 2
PrefixTooShort(prefix) == Len(as_bytes(prefix)) < 2

\* Autocomplete::update
update(ac, ls, cursor_row, cursor_col) ==
    LET w == extract_current_word(ls, cursor_row, cursor_col)
    IN  IF w.panicked THEN Panicked(ac)
        ELSE IF PrefixTooShort(w.value) THEN Returned(dismiss(ac))
        ELSE LET matches == matching_keywords(to_ascii_uppercase(w.value))
             IN  IF matches = <<>> THEN Returned(dismiss(ac))
                 ELSE Returned(Autocomplete(TRUE, matches,
                                 ClampSelected(ac.selected, Len(matches)),
                                 w.value))

\* Autocomplete::prev
ac_prev(ac) ==
    IF ac.suggestions # <<>>
    THEN [ac EXCEPT !.selected = IF ac.selected >= 1 THEN ac.selected - 1
                                 ELSE Len(ac.suggestions) - 1]
    ELSE ac

\* Autocomplete::next
ac_next(ac) ==
    IF ac.suggestions # <<>>
    THEN [ac EXCEPT !.selected = (ac.selected + 1) % Len(ac.suggestions)]
    ELSE ac

\* Autocomplete::selected_keyword, as an Option
selected_keyword(ac) ==
    IF ac.selected < Len(ac.suggestions) THEN Some(ac.suggestions[ac.selected + 1])
    ELSE None

\* TextArea::lines for a widget whose lines joined by line feeds give text
RECURSIVE split_lines(_, _)
split_lines(text, cur) ==
    IF text = <<>> THEN <<cur>>
    ELSE IF Head(text) = "\n" THEN <<cur>> \o split_lines(Tail(text), <<>>)
    ELSE split_lines(Tail(text), Append(cur, Head(text)))

editor_lines(text) == split_lines(text, <<>>)

\* The widget: its text and its cursor
TextArea(text, cur) == [text |-> text, cursor |-> cur]

\* The cursor of a widget built from its lines (TextArea::default,
\* TextArea::new)
CursorHome == <<0, 0>>

\* The cursor after the last character of text
CursorEnd(text) ==
    LET ls == editor_lines(text) IN <<Len(ls) - 1, Len(ls[Len(ls)])>>

----------------------------------------------------------------------------
(* The session: App::new, run, run_loop and handle_key *)

\* App.connection_info and App.user, set by App::new and never changed
ConnectionInfo == <<"localhost:1433">>
User == <<"sa">>

\* Editor contents the session types
SelectText == <<"S", "E", "L", "E", "C", "T", " ", "1">>
UseText == <<"\\", "c", " ", "d", "b">>
ConnInfoText == <<"\\", "c", "o", "n", "n", "i", "n", "f", "o">>
ExpandedText == <<"\\", "x">>
QuitText == <<"\\", "q">>
BlankText == <<" ">>
Texts == {<<>>, BlankText, SelectText, UseText, ConnInfoText, ExpandedText, QuitText}

\* Events and streams the session's server sends
Metadata(columns) == [kind |-> "Metadata", columns |-> columns, vals |-> <<>>]
Row(columns, vals) == [kind |-> "Row", columns |-> columns, vals |-> vals]
Message == [kind |-> "Message", columns |-> <<>>, vals |-> <<>>]
I32(n) == [type |-> "I32", val |-> Some(n)]
NullI32 == [type |-> "I32", val |-> None]

ColsA == << <<"a">> >>
ColsAB == << <<"a">>, <<"b">> >>

Stream(events, fails) == [events |-> events, fails |-> fails]

\* A batch of two SELECTs: n rows under schema A, then one row under schema AB
TwoSets(n) ==
    Stream(<<Metadata(ColsA)>> \o [i \in 1..n |-> Row(ColsA, <<I32(i)>>)]
           \o <<Message, Metadata(ColsAB), Row(ColsAB, <<I32(0), NullI32>>)>>, FALSE)

ServerStreams ==
    {Stream(<<>>, TRUE), Stream(<<>>, FALSE)} \cup {TwoSets(n) : n \in 2..MaxServerRows}
    \cup {Stream(TwoSets(n).events, TRUE) : n \in 2..MaxServerRows}

\* fetch_object_tree's answer at startup: master pre-loaded, all collapsed
StartupTree ==
    << ObjectNode(<<"master">>, 0, FALSE,
         << ObjectNode(<<"dbo">>, 1, FALSE,
              << ObjectNode(<<"t">>, 2, FALSE, <<>>) >>) >>),
       ObjectNode(<<"tempdb">>, 0, FALSE, <<>>) >>

\* App::new
InitApp ==
    /\ focus = "Editor"
    /\ sidebar_visible = TRUE
    /\ editor = <<>>
    /\ result_scroll = 0
    /\ result_col_scroll = 0
    /\ sidebar_scroll = 0
    /\ current_database = <<"master">>
    /\ query_running = FALSE
    /\ history = <<>>
    /\ history_index = None
    /\ current_result_set = 0
    /\ expanded_mode = FALSE
    /\ show_timing = FALSE
    /\ pc = "poll"
    /\ in_flight = 0
    /\ cursor = CursorHome
    /\ autocomplete = AutocompleteDefault
    /\ show_help = FALSE

\* App::load_objects: the tree on success, the error message otherwise
LoadObjectsOk ==
    /\ objects = StartupTree
    /\ result = DefaultResult

LoadObjectsErr ==
    /\ objects = <<>>
    /\ result = [DefaultResult EXCEPT
                    !.error = Some(<<"Failed to load objects: ", "stream error">>)]

NoStream == stream = Stream(<<>>, FALSE) /\ assembled = None

\* main took the TUI branch and has not returned
InTui == mode = "tui" /\ exit_status = None

\* run: App::new, then load_objects, then the loop
Init ==
    /\ InitApp
    /\ LoadObjectsOk \/ LoadObjectsErr
    /\ NoStream
    /\ InTui

\* Mutant: keys are dispatched while a statement executes.
PollReadyAlways == pc # "exited"

\* run_loop polls for the next key only between dispatches
PollReady == pc = "poll"

\* Mutant: the focus goes from Results to Sidebar whether or not the sidebar
\* is visible.
cycle_focus_ignores_visibility ==
    focus' = CASE focus = "Editor" -> "Results"
               [] focus = "Results" -> "Sidebar"
               [] focus = "Sidebar" -> "Editor"

\* App::cycle_focus
cycle_focus ==
    focus' = CASE focus = "Editor" -> "Results"
               [] focus = "Results" -> IF sidebar_visible THEN "Sidebar" ELSE "Editor"
               [] focus = "Sidebar" -> "Editor"

\* Mutant: the result set is built without its column names.
single_without_columns(columns, rows, elapsed_ms) ==
    QueryResult(<<ResultSet(<<>>, rows)>>, elapsed_ms, None)

\* QueryResult::single
single(columns, rows, elapsed_ms) ==
    QueryResult(<<ResultSet(columns, rows)>>, elapsed_ms, None)

\* Mutant: only the error field of the previous result is replaced.
ErrorResultKeepsSets(prev, e) == [prev EXCEPT !.error = Some(e)]

\* The result model after a failed execution
ErrorResult(prev, e) == QueryResult(<<>>, 0, Some(e))

\* Mutant: the status text reports the value the flag had before the flip.
OnOffPrevious(b) == IF b THEN "OFF" ELSE "ON"

\* let state = if flag { "ON" } else { "OFF" }
OnOff(b) == IF b THEN "ON" ELSE "OFF"

UNCHANGED_Tree == UNCHANGED <<objects, sidebar_scroll>>
UNCHANGED_Asm == UNCHANGED <<stream, assembled>>
UNCHANGED_Results ==
    UNCHANGED <<result, result_scroll, result_col_scroll, current_result_set>>
UNCHANGED_Exec == UNCHANGED <<query_running, pc, in_flight>>
UNCHANGED_Modes == UNCHANGED <<expanded_mode, show_timing, current_database>>
UNCHANGED_History == UNCHANGED <<history, history_index>>
UNCHANGED_Popup == UNCHANGED <<autocomplete, show_help>>
UNCHANGED_Process == UNCHANGED <<mode, exit_status>>

----------------------------------------------------------------------------
(* tui/mod.rs: handle_key *)

\* Tab: cycle focus
KeyTab ==
    /\ PollReady
    /\ cycle_focus
    /\ UNCHANGED <<sidebar_visible, editor, cursor>>
    /\ UNCHANGED_Results /\ UNCHANGED_Exec /\ UNCHANGED_Modes
    /\ UNCHANGED_History /\ UNCHANGED_Tree /\ UNCHANGED_Asm
    /\ UNCHANGED_Popup /\ UNCHANGED_Process

\* Mutant: the sidebar is hidden and the focus stays where it is.
toggle_sidebar_keeps_focus ==
    /\ sidebar_visible' = ~sidebar_visible
    /\ focus' = focus

\* App::toggle_sidebar
toggle_sidebar ==
    /\ sidebar_visible' = ~sidebar_visible
    /\ focus' = IF ~sidebar_visible' /\ focus = "Sidebar" THEN "Editor" ELSE focus

\* Ctrl+D: App::toggle_sidebar
KeyCtrlD ==
    /\ PollReady
    /\ toggle_sidebar
    /\ UNCHANGED <<editor, cursor>>
    /\ UNCHANGED_Results /\ UNCHANGED_Exec /\ UNCHANGED_Modes
    /\ UNCHANGED_History /\ UNCHANGED_Tree /\ UNCHANGED_Asm
    /\ UNCHANGED_Popup /\ UNCHANGED_Process

\* Ctrl+L: App::clear_editor
KeyCtrlL ==
    /\ PollReady
    /\ editor' = <<>>
    /\ cursor' = CursorHome
    /\ UNCHANGED <<focus, sidebar_visible>>
    /\ UNCHANGED_Results /\ UNCHANGED_Exec /\ UNCHANGED_Modes
    /\ UNCHANGED_History /\ UNCHANGED_Tree /\ UNCHANGED_Asm
    /\ UNCHANGED_Popup /\ UNCHANGED_Process

\* Ctrl+Q: handle_key returns true and the loop breaks
KeyCtrlQ ==
    /\ PollReady
    /\ pc' = "exited"
    /\ UNCHANGED <<focus, sidebar_visible, editor, cursor, query_running, in_flight>>
    /\ UNCHANGED_Results /\ UNCHANGED_Modes
    /\ UNCHANGED_History /\ UNCHANGED_Tree /\ UNCHANGED_Asm
    /\ UNCHANGED_Popup /\ UNCHANGED_Process

\* app.editor.input(key) left the widget as ta; autocomplete.update then runs
\* at the new cursor, and a panic in it ends the process
EditorInputThenUpdate(ta) ==
    LET u == update(autocomplete, editor_lines(ta.text), ta.cursor[1], ta.cursor[2])
    IN  /\ editor' = ta.text
        /\ cursor' = ta.cursor
        /\ autocomplete' = u.value
        /\ pc' = IF u.panicked THEN "panicked" ELSE pc

\* Keys the editor widget consumes: the buffer becomes some other text, with
\* the cursor after its last character
KeyEditorInput ==
    /\ PollReady
    /\ focus = "Editor"
    /\ \E t \in Texts : t # editor /\ EditorInputThenUpdate(TextArea(t, CursorEnd(t)))
    /\ UNCHANGED <<focus, sidebar_visible, query_running, in_flight, show_help>>
    /\ UNCHANGED_Results /\ UNCHANGED_Modes
    /\ UNCHANGED_History /\ UNCHANGED_Tree /\ UNCHANGED_Asm
    /\ UNCHANGED_Process


\* Mutant: the text of a slash command is not recorded.
push_history_sql_only ==
    /\ history' = IF Trim(editor) # <<>> /\ parse(editor) = None
                  THEN Append(history, editor) ELSE history
    /\ history_index' = None

\* App::push_history, for the text the editor holds
push_history ==
    /\ history' = IF Trim(editor) # <<>> THEN Append(history, editor) ELSE history
    /\ history_index' = None

\* Mutant: text that is no command is executed without its surrounding
\* whitespace.
SubmittedSqlTrimmed ==
    LET cmd == parse(editor)
    IN  IF cmd = None THEN Some(Trim(editor))
        ELSE LET action == to_action(cmd[1], ConnectionInfo, current_database, User)
             IN  IF action.kind = "ExecuteSql" THEN Some(action.sql) ELSE None

\* The statement a submission of the editor text executes, as an Option:
\* the SQL of a SQL-producing command, the text itself when it is no command.
SubmittedSql ==
    LET cmd == parse(editor)
    IN  IF cmd = None THEN Some(editor)
        ELSE LET action == to_action(cmd[1], ConnectionInfo, current_database, User)
             IN  IF action.kind = "ExecuteSql" THEN Some(action.sql) ELSE None

\* Ctrl+Enter or F5, up to the await of execute_query or to the return
KeySubmit ==
    /\ PollReady
    /\ Trim(editor) # <<>> => Len(history) < MaxHistory
    /\ UNCHANGED <<focus, sidebar_visible, editor, cursor>>
    /\ UNCHANGED_Tree /\ UNCHANGED_Asm
    /\ UNCHANGED_Popup /\ UNCHANGED_Process
    /\ IF Trim(editor) = <<>>
       THEN /\ UNCHANGED_Results /\ UNCHANGED_Exec /\ UNCHANGED_Modes
            /\ UNCHANGED_History
       ELSE /\ push_history
            /\ IF SubmittedSql # None
               THEN /\ query_running' = TRUE
                    /\ pc' = "executing"
                    /\ in_flight' = in_flight + 1
                    /\ UNCHANGED_Results /\ UNCHANGED_Modes
               ELSE LET action == to_action(parse(editor)[1], ConnectionInfo,
                                            current_database, User)
                    IN  CASE action.kind = "DisplayMessage" ->
                               /\ result' = single(action.columns, action.rows, 0)
                               /\ result_scroll' = 0
                               /\ result_col_scroll' = 0
                               /\ UNCHANGED current_result_set
                               /\ UNCHANGED_Exec /\ UNCHANGED_Modes
                          [] action.kind = "ToggleExpanded" ->
                               /\ expanded_mode' = ~expanded_mode
                               /\ result' = single(<< <<"Status">> >>,
                                    << << <<"Expanded display is ", OnOff(expanded_mode')>> >> >>, 0)
                               /\ UNCHANGED <<result_scroll, result_col_scroll,
                                              current_result_set, show_timing,
                                              current_database>>
                               /\ UNCHANGED_Exec
                          [] action.kind = "ToggleTiming" ->
                               /\ show_timing' = ~show_timing
                               /\ result' = single(<< <<"Status">> >>,
                                    << << <<"Timing is ", OnOff(show_timing')>> >> >>, 0)
                               /\ UNCHANGED <<result_scroll, result_col_scroll,
                                              current_result_set, expanded_mode,
                                              current_database>>
                               /\ UNCHANGED_Exec
                          [] action.kind = "Quit" ->
                               /\ pc' = "exited"
                               /\ UNCHANGED <<query_running, in_flight>>
                               /\ UNCHANGED_Results /\ UNCHANGED_Modes

\* Mutant: the flag is left set when the execution failed.
ClearRunningOnSuccessOnly == query_running' = (result'.error # None)

\* app.query_running = false, after the match on the outcome
ClearRunning == query_running' = FALSE

\* Mutant: a successful USE leaves the recorded database as it was.
DatabaseAfterOkKeeps(cmd) == current_database

\* if let SlashCommand::UseDatabase(ref db_name) = cmd: the recorded database
\* after a successful execution; cmd is None on the plain text path
DatabaseAfterOk(cmd) ==
    IF cmd # None /\ cmd[1].kind = "UseDatabase" THEN cmd[1].arg ELSE current_database

\* execute_query returns and handle_key runs to its end
ExecuteReturn ==
    /\ pc = "executing"
    /\ \E s \in ServerStreams, elapsed_ms \in 0..MaxElapsed :
         LET r   == execute_query(s, elapsed_ms)
             cmd == parse(editor)
         IN  IF r.ok
             THEN /\ current_database' = DatabaseAfterOk(cmd)
                  /\ result' = r.value
                  /\ result_scroll' = 0
                  /\ result_col_scroll' = 0
             ELSE /\ result' = ErrorResult(result, r.err)
                  /\ UNCHANGED <<current_database, result_scroll, result_col_scroll>>
    /\ ClearRunning
    /\ pc' = "poll"
    /\ in_flight' = in_flight - 1
    /\ UNCHANGED <<focus, sidebar_visible, editor, cursor, current_result_set,
                   expanded_mode, show_timing>>
    /\ UNCHANGED_History /\ UNCHANGED_Tree /\ UNCHANGED_Asm
    /\ UNCHANGED_Popup /\ UNCHANGED_Process

\* App::scroll_results_down
scroll_results_down ==
    LET row_count == Len(rows_for(result, current_result_set))
    IN  result_scroll' = IF result_scroll + 1 < row_count
                         THEN result_scroll + 1 ELSE result_scroll

\* App::scroll_results_right
scroll_results_right ==
    LET col_count == Len(columns_for(result, current_result_set))
    IN  result_col_scroll' = IF col_count > 0 /\ result_col_scroll + 1 < col_count
                             THEN result_col_scroll + 1 ELSE result_col_scroll

\* Up, Down, Left, Right with the Results pane focused
KeyResults ==
    /\ PollReady
    /\ focus = "Results"
    /\ \/ result_scroll' = SatDec(result_scroll) /\ UNCHANGED result_col_scroll
       \/ scroll_results_down /\ UNCHANGED result_col_scroll
       \/ result_col_scroll' = SatDec(result_col_scroll) /\ UNCHANGED result_scroll
       \/ scroll_results_right /\ UNCHANGED result_scroll
    /\ UNCHANGED <<focus, sidebar_visible, editor, cursor, result, current_result_set>>
    /\ UNCHANGED_Exec /\ UNCHANGED_Modes
    /\ UNCHANGED_History /\ UNCHANGED_Tree /\ UNCHANGED_Asm
    /\ UNCHANGED_Popup /\ UNCHANGED_Process

\* Any key the Results arm of handle_key does not name, '[' and ']' among them:
\* the match falls to its default arm and nothing changes
KeyResultsChar(c) ==
    /\ PollReady
    /\ focus = "Results"
    /\ c \in {"[", "]"}
    /\ UNCHANGED vars

\* Mutant: moving to the next set keeps the row offset.
next_result_set_keeps_scroll ==
    /\ PollReady
    /\ IF current_result_set + 1 < Len(result.result_sets)
       THEN /\ current_result_set' = current_result_set + 1
            /\ result_col_scroll' = 0
            /\ UNCHANGED result_scroll
       ELSE UNCHANGED <<current_result_set, result_scroll, result_col_scroll>>
    /\ UNCHANGED <<focus, sidebar_visible, editor, cursor, result>>
    /\ UNCHANGED_Exec /\ UNCHANGED_Modes
    /\ UNCHANGED_History /\ UNCHANGED_Tree /\ UNCHANGED_Asm
    /\ UNCHANGED_Popup /\ UNCHANGED_Process

\* App::next_result_set, an operation of the session state; handle_key binds
\* no key to it, so it is taken here as a call from outside the dispatch.
next_result_set ==
    /\ PollReady
    /\ IF current_result_set + 1 < Len(result.result_sets)
       THEN /\ current_result_set' = current_result_set + 1
            /\ result_scroll' = 0
            /\ result_col_scroll' = 0
       ELSE UNCHANGED <<current_result_set, result_scroll, result_col_scroll>>
    /\ UNCHANGED <<focus, sidebar_visible, editor, cursor, result>>
    /\ UNCHANGED_Exec /\ UNCHANGED_Modes
    /\ UNCHANGED_History /\ UNCHANGED_Tree /\ UNCHANGED_Asm
    /\ UNCHANGED_Popup /\ UNCHANGED_Process

\* App::prev_result_set, likewise an operation no key is bound to
prev_result_set ==
    /\ PollReady
    /\ IF current_result_set > 0
       THEN /\ current_result_set' = current_result_set - 1
            /\ result_scroll' = 0
            /\ result_col_scroll' = 0
       ELSE UNCHANGED <<current_result_set, result_scroll, result_col_scroll>>
    /\ UNCHANGED <<focus, sidebar_visible, editor, cursor, result>>
    /\ UNCHANGED_Exec /\ UNCHANGED_Modes
    /\ UNCHANGED_History /\ UNCHANGED_Tree /\ UNCHANGED_Asm
    /\ UNCHANGED_Popup /\ UNCHANGED_Process

Next ==
    \/ KeyTab
    \/ KeyCtrlD
    \/ KeyCtrlL
    \/ KeyCtrlQ
    \/ KeyEditorInput
    \/ KeySubmit
    \/ ExecuteReturn
    \/ KeyResults
    \/ \E c \in {"[", "]"} : KeyResultsChar(c)
    \/ next_result_set
    \/ prev_result_set

Spec == Init /\ [][Next]_vars


----------------------------------------------------------------------------
(* SpecAsm: execute_query applied to every event stream within the bounds *)

AsmEvents ==
    { Metadata(<<>>), Metadata(ColsA), Metadata(ColsAB),
      Row(ColsA, <<I32(1)>>), Row(ColsA, <<I32(2)>>),
      Row(ColsAB, <<I32(3), NullI32>>), Message }

AsmStreams ==
    { Stream(ev, f) : ev \in UNION { [1..n -> AsmEvents] : n \in 0..MaxEvents },
                      f \in BOOLEAN }

InitAsm ==
    /\ InitApp
    /\ LoadObjectsOk
    /\ stream \in AsmStreams
    /\ assembled = None
    /\ InTui

Assemble ==
    /\ assembled = None
    /\ \E elapsed_ms \in 0..MaxElapsed :
         assembled' = Some(execute_query(stream, elapsed_ms))
    /\ UNCHANGED <<focus, sidebar_visible, editor, cursor, stream>>
    /\ UNCHANGED_Results /\ UNCHANGED_Exec /\ UNCHANGED_Modes
    /\ UNCHANGED_History /\ UNCHANGED_Tree
    /\ UNCHANGED_Popup /\ UNCHANGED_Process

NextAsm == Assemble

SpecAsm == InitAsm /\ [][NextAsm]_vars

----------------------------------------------------------------------------
(* SpecTree: the sidebar keys of handle_key over every tree within the bounds *)

TableList(n) ==
    [j \in 1..n |-> ObjectNode(<<"t", ToString(j)>>, 2, FALSE, <<>>)]

SchemaLists ==
    { [j \in 1..Len(f) |-> ObjectNode(<<"s", ToString(j)>>, 1, FALSE, TableList(f[j]))] :
        f \in UNION { [1..n -> 0..MaxTables] : n \in 0..MaxSchemas } }

\* fetch_object_tree: the databases in name order, all collapsed; only the one
\* named master (position m, 0 when the server lists none) gets children.
Forests ==
    UNION { { [j \in 1..n |->
                 ObjectNode(IF j = m THEN <<"master">> ELSE <<"db", ToString(j)>>,
                            0, FALSE, IF j = m THEN sl ELSE <<>>)] :
              m \in 0..n, sl \in SchemaLists } :
            n \in 0..MaxDbs }

InitTree ==
    /\ InitApp
    /\ objects \in Forests
    /\ result = DefaultResult
    /\ NoStream
    /\ InTui

\* Up with the Sidebar pane focused: App::scroll_sidebar_up
KeySidebarUp ==
    /\ PollReady
    /\ focus = "Sidebar"
    /\ sidebar_scroll' = SatDec(sidebar_scroll)
    /\ UNCHANGED <<focus, sidebar_visible, editor, cursor, objects>>
    /\ UNCHANGED_Results /\ UNCHANGED_Exec /\ UNCHANGED_Modes
    /\ UNCHANGED_History /\ UNCHANGED_Asm
    /\ UNCHANGED_Popup /\ UNCHANGED_Process

\* Down with the Sidebar pane focused: App::scroll_sidebar_down
KeySidebarDown ==
    /\ PollReady
    /\ focus = "Sidebar"
    /\ sidebar_scroll < MaxSidebarScroll
    /\ sidebar_scroll' = sidebar_scroll + 1
    /\ UNCHANGED <<focus, sidebar_visible, editor, cursor, objects>>
    /\ UNCHANGED_Results /\ UNCHANGED_Exec /\ UNCHANGED_Modes
    /\ UNCHANGED_History /\ UNCHANGED_Asm
    /\ UNCHANGED_Popup /\ UNCHANGED_Process

\* Enter with the Sidebar pane focused: App::toggle_sidebar_node
KeySidebarEnter ==
    /\ PollReady
    /\ focus = "Sidebar"
    /\ objects' = toggle_sidebar_node(objects, sidebar_scroll)
    /\ UNCHANGED <<focus, sidebar_visible, editor, cursor, sidebar_scroll>>
    /\ UNCHANGED_Results /\ UNCHANGED_Exec /\ UNCHANGED_Modes
    /\ UNCHANGED_History /\ UNCHANGED_Asm
    /\ UNCHANGED_Popup /\ UNCHANGED_Process

NextTree ==
    \/ KeyTab
    \/ KeySidebarUp
    \/ KeySidebarDown
    \/ KeySidebarEnter

SpecTree == InitTree /\ [][NextTree]_vars


----------------------------------------------------------------------------
(* app.rs: the editor buffer and the history *)

\* str::split_inclusive('\n'): the pieces of text, each ending with its line
\* feed, the last one possibly without; cur is the piece being collected.
RECURSIVE split_inclusive(_, _)
split_inclusive(text, cur) ==
    IF text = <<>> THEN (IF cur = <<>> THEN <<>> ELSE <<cur>>)
    ELSE IF Head(text) = "\n"
         THEN <<Append(cur, "\n")>> \o split_inclusive(Tail(text), <<>>)
         ELSE split_inclusive(Tail(text), Append(cur, Head(text)))

\* The closure of str::lines: strip the line feed, then a carriage return
\* before it; a piece without line feed is left as it is.
strip_line_ending(line) ==
    IF line # <<>> /\ line[Len(line)] = "\n"
    THEN LET l == SubSeq(line, 1, Len(line) - 1)
         IN  IF l # <<>> /\ l[Len(l)] = "\r" THEN SubSeq(l, 1, Len(l) - 1) ELSE l
    ELSE line

\* str::lines
lines(text) ==
    LET pieces == split_inclusive(text, <<>>)
    IN  [i \in 1..Len(pieces) |-> strip_line_ending(pieces[i])]

\* App::set_editor_text: the lines the new TextArea holds
set_editor_text(text) ==
    LET l == lines(text) IN IF l = <<>> THEN << <<>> >> ELSE l

\* App::get_editor_text for a TextArea holding the lines ls: ls.join("\n")
RECURSIVE get_editor_text(_)
get_editor_text(ls) ==
    IF ls = <<>> THEN <<>>
    ELSE IF Len(ls) = 1 THEN ls[1]
    ELSE ls[1] \o <<"\n">> \o get_editor_text(Tail(ls))

\* The fields the history operations read and write
HistApp(h, idx, ed) == [history |-> h, history_index |-> idx, editor |-> ed]

\* Mutant: a step back from the oldest entry wraps to the newest.
history_prev_wraps(app) ==
    IF app.history = <<>> THEN app
    ELSE LET idx == IF app.history_index = None
                    THEN SatDec(Len(app.history))
                    ELSE IF app.history_index[1] > 0
                         THEN app.history_index[1] - 1
                         ELSE Len(app.history) - 1
         IN  [app EXCEPT !.history_index = Some(idx),
                         !.editor = get_editor_text(set_editor_text(app.history[idx + 1]))]

\* App::history_prev
history_prev(app) ==
    IF app.history = <<>> THEN app
    ELSE LET idx == IF app.history_index = None
                    THEN SatDec(Len(app.history))
                    ELSE SatDec(app.history_index[1])
         IN  [app EXCEPT !.history_index = Some(idx),
                         !.editor = get_editor_text(set_editor_text(app.history[idx + 1]))]

\* Mutant: the step forward from the newest entry moves the cursor one past
\* it instead of going live.
history_next_past_end(app) ==
    IF app.history_index # None
    THEN LET idx == app.history_index[1]
         IN  IF idx + 1 < Len(app.history)
             THEN [app EXCEPT !.history_index = Some(idx + 1),
                              !.editor = get_editor_text(set_editor_text(app.history[idx + 2]))]
             ELSE IF idx + 1 = Len(app.history)
             THEN [app EXCEPT !.history_index = Some(idx + 1)]
             ELSE [app EXCEPT !.history_index = None,
                              !.editor = get_editor_text(<< <<>> >>)]
    ELSE app

\* Mutant: a step past the newest entry leaves the buffer as it is.
history_next_keeps_buffer(app) ==
    IF app.history_index # None
    THEN LET idx == app.history_index[1]
         IN  IF idx + 1 < Len(app.history)
             THEN [app EXCEPT !.history_index = Some(idx + 1),
                              !.editor = get_editor_text(set_editor_text(app.history[idx + 2]))]
             ELSE [app EXCEPT !.history_index = None]
    ELSE app

\* App::history_next; clear_editor leaves a TextArea with one empty line
history_next(app) ==
    IF app.history_index # None
    THEN LET idx == app.history_index[1]
         IN  IF idx + 1 < Len(app.history)
             THEN [app EXCEPT !.history_index = Some(idx + 1),
                              !.editor = get_editor_text(set_editor_text(app.history[idx + 2]))]
             ELSE [app EXCEPT !.history_index = None,
                              !.editor = get_editor_text(<< <<>> >>)]
    ELSE app

----------------------------------------------------------------------------
(* The editor widget (tui_textarea::TextArea) as handle_key uses it: the    *)
(* text and the cursor, a (row, col) pair counted in characters             *)

\* The widget with line row + 1 replaced by the lines in new
ReplaceLine(ls, row, new) ==
    SubSeq(ls, 1, row) \o new \o SubSeq(ls, row + 2, Len(ls))

\* input of a character key: the character goes in at the cursor
input_char(ta, c) ==
    LET ls   == editor_lines(ta.text)
        row  == ta.cursor[1]
        col  == ta.cursor[2]
        line == ls[row + 1]
        new  == SubSeq(line, 1, col) \o <<c>> \o SubSeq(line, col + 1, Len(line))
    IN  TextArea(get_editor_text(ReplaceLine(ls, row, <<new>>)), <<row, col + 1>>)

\* input of Enter: the line is split at the cursor
input_newline(ta) ==
    LET ls   == editor_lines(ta.text)
        row  == ta.cursor[1]
        col  == ta.cursor[2]
        line == ls[row + 1]
    IN  TextArea(get_editor_text(ReplaceLine(ls, row,
                    <<SubSeq(line, 1, col), SubSeq(line, col + 1, Len(line))>>)),
                 <<row + 1, 0>>)

\* input of Backspace: the character before the cursor goes, a line start
\* joins the line to the one above, the start of the text changes nothing
input_backspace(ta) ==
    LET ls   == editor_lines(ta.text)
        row  == ta.cursor[1]
        col  == ta.cursor[2]
        line == ls[row + 1]
    IN  IF col > 0
        THEN TextArea(get_editor_text(ReplaceLine(ls, row,
                        <<SubSeq(line, 1, col - 1) \o SubSeq(line, col + 1, Len(line))>>)),
                      <<row, col - 1>>)
        ELSE IF row > 0
        THEN TextArea(get_editor_text(SubSeq(ls, 1, row - 1) \o <<ls[row] \o line>>
                                      \o SubSeq(ls, row + 2, Len(ls))),
                      <<row - 1, Len(ls[row])>>)
        ELSE ta

\* input of Left
input_left(ta) ==
    LET ls  == editor_lines(ta.text)
        row == ta.cursor[1]
        col == ta.cursor[2]
    IN  IF col > 0 THEN TextArea(ta.text, <<row, col - 1>>)
        ELSE IF row > 0 THEN TextArea(ta.text, <<row - 1, Len(ls[row])>>)
        ELSE ta

\* input of Up and of Down: the cursor changes row and keeps its column as
\* far as the line reaches
input_up(ta) ==
    LET ls  == editor_lines(ta.text)
        row == ta.cursor[1]
    IN  IF row > 0 THEN TextArea(ta.text, <<row - 1, Min(ta.cursor[2], Len(ls[row]))>>)
        ELSE ta

input_down(ta) ==
    LET ls  == editor_lines(ta.text)
        row == ta.cursor[1]
    IN  IF row + 1 < Len(ls)
        THEN TextArea(ta.text, <<row + 1, Min(ta.cursor[2], Len(ls[row + 2]))>>)
        ELSE ta

\* for _ in 0..prefix_len: input of Backspace
RECURSIVE input_backspaces(_, _)
input_backspaces(ta, n) ==
    IF n = 0 THEN ta ELSE input_backspaces(input_backspace(ta), n - 1)

\* for ch in keyword.chars(): input of ch
RECURSIVE input_chars(_, _)
input_chars(ta, s) ==
    IF s = <<>> THEN ta ELSE input_chars(input_char(ta, Head(s)), Tail(s))

\* The accept arm of handle_key: prefix.len() Backspaces, then the keyword
accept(ta, ac) ==
    IF selected_keyword(ac) # None
    THEN input_chars(input_backspaces(ta, Len(as_bytes(ac.prefix))),
                     selected_keyword(ac)[1])
    ELSE ta

----------------------------------------------------------------------------
(* SpecHist: the history operations over the texts an editor can hold *)

TextA == <<"A">>
TextB == <<"B">>
TextC == <<"C">>
TwoLineText == <<"A", "\n", "B">>
OpenLineText == <<"A", "\n">>
HistTexts == {<<>>, BlankText, TextA, TextB, TextC, TwoLineText, OpenLineText}

InitHist ==
    /\ InitApp
    /\ LoadObjectsOk
    /\ NoStream
    /\ InTui

\* A key the editor widget consumes: the buffer becomes some other text
HistEditorInput ==
    /\ PollReady
    /\ focus = "Editor"
    /\ \E t \in HistTexts :
         t # editor /\ EditorInputThenUpdate(TextArea(t, CursorEnd(t)))
    /\ UNCHANGED <<focus, sidebar_visible, query_running, in_flight, show_help>>
    /\ UNCHANGED_Results /\ UNCHANGED_Modes
    /\ UNCHANGED_History /\ UNCHANGED_Tree /\ UNCHANGED_Asm
    /\ UNCHANGED_Process

\* A call of App::push_history
CallPushHistory ==
    /\ PollReady
    /\ Trim(editor) # <<>> => Len(history) < MaxEntries
    /\ push_history
    /\ UNCHANGED <<focus, sidebar_visible, editor, cursor>>
    /\ UNCHANGED_Results /\ UNCHANGED_Exec /\ UNCHANGED_Modes
    /\ UNCHANGED_Tree /\ UNCHANGED_Asm
    /\ UNCHANGED_Popup /\ UNCHANGED_Process

\* A call of App::history_prev
CallHistoryPrev ==
    /\ PollReady
    /\ LET app == history_prev(HistApp(history, history_index, editor))
       IN  /\ history' = app.history
           /\ history_index' = app.history_index
           /\ editor' = app.editor
    /\ cursor' = IF history = <<>> THEN cursor ELSE CursorHome
    /\ UNCHANGED <<focus, sidebar_visible>>
    /\ UNCHANGED_Results /\ UNCHANGED_Exec /\ UNCHANGED_Modes
    /\ UNCHANGED_Tree /\ UNCHANGED_Asm
    /\ UNCHANGED_Popup /\ UNCHANGED_Process

\* A call of App::history_next
CallHistoryNext ==
    /\ PollReady
    /\ LET app == history_next(HistApp(history, history_index, editor))
       IN  /\ history' = app.history
           /\ history_index' = app.history_index
           /\ editor' = app.editor
    /\ cursor' = IF history_index = None THEN cursor ELSE CursorHome
    /\ UNCHANGED <<focus, sidebar_visible>>
    /\ UNCHANGED_Results /\ UNCHANGED_Exec /\ UNCHANGED_Modes
    /\ UNCHANGED_Tree /\ UNCHANGED_Asm
    /\ UNCHANGED_Popup /\ UNCHANGED_Process

NextHist ==
    \/ HistEditorInput
    \/ CallPushHistory
    \/ CallHistoryPrev
    \/ CallHistoryNext

SpecHist == InitHist /\ [][NextHist]_vars

----------------------------------------------------------------------------
(* SpecCmd: a session started on some database, with one command line typed *)
(* into the editor and submitted repeatedly                                 *)

\* The command tokens parse matches on
TokD        == <<"\\", "d">>
TokDt       == <<"\\", "d", "t">>
TokDv       == <<"\\", "d", "v">>
TokDi       == <<"\\", "d", "i">>
TokDf       == <<"\\", "d", "f">>
TokDs       == <<"\\", "d", "s">>
TokDn       == <<"\\", "d", "n">>
TokC        == <<"\\", "c">>
TokConninfo == <<"\\", "c", "o", "n", "n", "i", "n", "f", "o">>
TokX        == <<"\\", "x">>
TokTiming   == <<"\\", "t", "i", "m", "i", "n", "g">>
TokHelp     == <<"\\", "?">>
TokQ        == <<"\\", "q">>

\* What a typed line starts with, after its leading whitespace: a command
\* token, or something that is none
LineHeads ==
    { TokD, TokDt, TokDv, TokDi, TokDf, TokDs, TokDn, TokC, TokConninfo, TokX,
      TokTiming, TokHelp, TokQ,
      <<"\\">>, <<"\\", "z">>, <<"\\", "D">>, <<"d">>, <<"S">> }

LineLeads == { <<>>, <<" ">> }

\* What follows the head
LineTails ==
    { <<>>, <<" ">>, <<"t">>, <<" ", "t">>, <<"\t", "t", " ">>,
      <<" ", " ", "a", "'", "b">>, <<" ", "'">>, <<" ", "a", " ", "b", "'">> }

CmdTexts == { l \o h \o t : l \in LineLeads, h \in LineHeads, t \in LineTails }

\* The database the session is started on (App::new's database argument)
Databases == { <<"master">>, <<"tempdb">>, <<"d", "b">> }

InitCmd ==
    /\ focus = "Editor"
    /\ sidebar_visible = TRUE
    /\ editor \in CmdTexts
    /\ result_scroll = 0
    /\ result_col_scroll = 0
    /\ sidebar_scroll = 0
    /\ current_database \in Databases
    /\ query_running = FALSE
    /\ history = <<>>
    /\ history_index = None
    /\ current_result_set = 0
    /\ expanded_mode = FALSE
    /\ show_timing = FALSE
    /\ pc = "poll"
    /\ in_flight = 0
    /\ cursor = CursorEnd(editor)
    /\ autocomplete = update(AutocompleteDefault, editor_lines(editor),
                             cursor[1], cursor[2]).value
    /\ show_help = FALSE
    /\ LoadObjectsOk
    /\ NoStream
    /\ InTui

NextCmd ==
    \/ KeySubmit
    \/ ExecuteReturn
    \/ KeyTab
    \/ KeyResults

SpecCmd == InitCmd /\ [][NextCmd]_vars

----------------------------------------------------------------------------
(* SpecAuto: the keys of the Editor pane, one key at a time, with the       *)
(* popup; Tab, Ctrl+L, F1 and Ctrl+Q of the global keys                     *)

\* The characters typed
TypedChars == {"s", "e", "T", " ", EAcute}

InitAuto ==
    /\ InitApp
    /\ LoadObjectsOk
    /\ NoStream
    /\ InTui

\* The Editor arm of handle_key is reached
EditorFocused == PollReady /\ focus = "Editor"

\* What the Editor arm leaves alone
UNCHANGED_EditorArm ==
    /\ UNCHANGED <<focus, sidebar_visible, query_running, in_flight, show_help>>
    /\ UNCHANGED_Results /\ UNCHANGED_Modes
    /\ UNCHANGED_History /\ UNCHANGED_Tree /\ UNCHANGED_Asm
    /\ UNCHANGED_Process

\* A character key with the Editor pane focused
KeyEditorChar(c) ==
    /\ EditorFocused
    /\ Len(editor) < MaxText
    /\ EditorInputThenUpdate(input_char(TextArea(editor, cursor), c))
    /\ UNCHANGED_EditorArm

\* Backspace with the Editor pane focused
KeyEditorBackspace ==
    /\ EditorFocused
    /\ Len(editor) <= MaxText
    /\ EditorInputThenUpdate(input_backspace(TextArea(editor, cursor)))
    /\ UNCHANGED_EditorArm

\* Left with the Editor pane focused
KeyEditorLeft ==
    /\ EditorFocused
    /\ Len(editor) <= MaxText
    /\ EditorInputThenUpdate(input_left(TextArea(editor, cursor)))
    /\ UNCHANGED_EditorArm

\* Esc with the Editor pane focused: dismiss when the popup is active,
\* otherwise a key the widget ignores, followed by update
KeyEditorEsc ==
    /\ EditorFocused
    /\ IF autocomplete.active
       THEN /\ autocomplete' = dismiss(autocomplete)
            /\ UNCHANGED <<editor, cursor, pc>>
       ELSE EditorInputThenUpdate(TextArea(editor, cursor))
    /\ UNCHANGED_EditorArm

\* Up with the Editor pane focused
KeyEditorUp ==
    /\ EditorFocused
    /\ ~autocomplete.active => Len(editor) <= MaxText
    /\ IF autocomplete.active
       THEN /\ autocomplete' = ac_prev(autocomplete)
            /\ UNCHANGED <<editor, cursor, pc>>
       ELSE EditorInputThenUpdate(input_up(TextArea(editor, cursor)))
    /\ UNCHANGED_EditorArm

\* Down with the Editor pane focused
KeyEditorDown ==
    /\ EditorFocused
    /\ ~autocomplete.active => Len(editor) <= MaxText
    /\ IF autocomplete.active
       THEN /\ autocomplete' = ac_next(autocomplete)
            /\ UNCHANGED <<editor, cursor, pc>>
       ELSE EditorInputThenUpdate(input_down(TextArea(editor, cursor)))
    /\ UNCHANGED_EditorArm

\* Enter with the Editor pane focused: accept when the popup is active,
\* otherwise a line break
KeyEditorEnter ==
    /\ EditorFocused
    /\ Len(editor) <= MaxText
    /\ ~autocomplete.active => Len(editor) < MaxText
    /\ IF autocomplete.active
       THEN LET ta == accept(TextArea(editor, cursor), autocomplete)
            IN  /\ editor' = ta.text
                /\ cursor' = ta.cursor
                /\ autocomplete' = dismiss(autocomplete)
                /\ UNCHANGED pc
       ELSE EditorInputThenUpdate(input_newline(TextArea(editor, cursor)))
    /\ UNCHANGED_EditorArm

\* F1: the help overlay is shown or hidden
KeyF1 ==
    /\ PollReady
    /\ show_help' = ~show_help
    /\ UNCHANGED <<focus, sidebar_visible, editor, cursor, autocomplete>>
    /\ UNCHANGED_Results /\ UNCHANGED_Exec /\ UNCHANGED_Modes
    /\ UNCHANGED_History /\ UNCHANGED_Tree /\ UNCHANGED_Asm
    /\ UNCHANGED_Process

NextAuto ==
    \/ \E c \in TypedChars : KeyEditorChar(c)
    \/ KeyEditorBackspace
    \/ KeyEditorLeft
    \/ KeyEditorEsc
    \/ KeyEditorUp
    \/ KeyEditorDown
    \/ KeyEditorEnter
    \/ KeyTab
    \/ KeyCtrlL
    \/ KeyF1
    \/ KeyCtrlQ

SpecAuto == InitAuto /\ [][NextAuto]_vars

----------------------------------------------------------------------------
(* SpecMain: the process from main to its exit status, in each of the ways  *)
(* main can run: the TUI, and cli::run reading a file, a pipe or a terminal *)

\* What main decides from args.cli_mode, args.input and stdin
Modes == {"tui", "cli_lines", "cli_file", "cli_pipe"}

\* Lines typed at the prompt of run_interactive
QuitLine == <<"Q", "u", "i", "t">>
ExitLine == <<"e", "x", "i", "t", "\n">>
CliLines == {BlankText, SelectText, QuitLine, ExitLine}

\* trimmed.eq_ignore_ascii_case("quit") || trimmed.eq_ignore_ascii_case("exit")
IsQuitLine(line) ==
    to_ascii_uppercase(Trim(line)) \in {<<"Q", "U", "I", "T">>, <<"E", "X", "I", "T">>}

\* main before db::connect; the session fields hold what App::new gives them
InitMain ==
    /\ focus = "Editor"
    /\ sidebar_visible = TRUE
    /\ editor = <<>>
    /\ result = DefaultResult
    /\ objects = <<>>
    /\ result_scroll = 0
    /\ result_col_scroll = 0
    /\ sidebar_scroll = 0
    /\ current_database = <<"master">>
    /\ query_running = FALSE
    /\ history = <<>>
    /\ history_index = None
    /\ current_result_set = 0
    /\ expanded_mode = FALSE
    /\ show_timing = FALSE
    /\ in_flight = 0
    /\ cursor = CursorHome
    /\ autocomplete = AutocompleteDefault
    /\ show_help = FALSE
    /\ NoStream
    /\ pc = "connect"
    /\ mode \in Modes
    /\ exit_status = None

\* What the steps of main and cli::run leave alone
UNCHANGED_Session ==
    /\ UNCHANGED <<focus, sidebar_visible, editor, cursor, query_running, in_flight,
                   result_scroll, result_col_scroll, current_result_set,
                   sidebar_scroll, mode>>
    /\ UNCHANGED_Modes /\ UNCHANGED_History /\ UNCHANGED_Popup

\* main returns Err: the runtime reports it and the status is 1
ReturnErr(at) == pc' = at /\ exit_status' = Some(1)

\* main returns Ok(())
ReturnOk == pc' = "returned" /\ exit_status' = Some(0)

\* db::connect(...).await? in tui::run and in cli::run; in the TUI it is
\* followed by App::new and load_objects
MainConnect ==
    /\ pc = "connect"
    /\ \/ /\ ReturnErr("connect_failed")
          /\ UNCHANGED <<objects, result>>
       \/ /\ mode = "tui"
          /\ pc' = "poll"
          /\ \/ objects' = StartupTree /\ UNCHANGED result
             \/ /\ result' = [DefaultResult EXCEPT
                     !.error = Some(<<"Failed to load objects: ", "stream error">>)]
                /\ UNCHANGED objects
          /\ UNCHANGED exit_status
       \/ /\ mode # "tui"
          /\ pc' = IF mode = "cli_lines" THEN "cli_prompt" ELSE "cli_source"
          /\ UNCHANGED <<objects, result, exit_status>>
    /\ UNCHANGED_Session /\ UNCHANGED_Asm

\* read_to_string of the input file or of the piped stdin, with its ?
CliReadSource ==
    /\ pc = "cli_source"
    /\ \/ ReturnErr("source_failed")
       \/ pc' = "cli_exec" /\ UNCHANGED exit_status
    /\ UNCHANGED <<objects, result>>
    /\ UNCHANGED_Session /\ UNCHANGED_Asm

\* execute_and_print(&mut client, &sql, &args).await? of cli::run: the
\* statement fails, or creating or writing the output fails, or all is printed
CliExecuteAndPrint ==
    /\ pc = "cli_exec"
    /\ \E s \in ServerStreams, elapsed_ms \in 0..MaxElapsed, printed \in BOOLEAN :
         LET r == execute_query(s, elapsed_ms)
         IN  /\ stream' = s
             /\ assembled' = Some(r)
             /\ IF ~r.ok THEN ReturnErr("statement_failed")
                ELSE IF ~printed THEN ReturnErr("output_failed")
                ELSE ReturnOk
    /\ UNCHANGED <<objects, result>>
    /\ UNCHANGED_Session

\* read_line returned 0: the end of the input
EndOfInput == <<"EOF">>

\* One turn of the loop of run_interactive: the end of the input or a line
\* that says quit or exit ends it with Ok, a blank line is skipped, any other
\* line is executed and execute_and_print(...).ok() discards the outcome
CliReadLine ==
    /\ pc = "cli_prompt"
    /\ \E line \in CliLines \cup {EndOfInput} :
         IF line = EndOfInput \/ IsQuitLine(line)
         THEN ReturnOk /\ UNCHANGED_Asm
         ELSE IF Trim(line) = <<>>
         THEN UNCHANGED <<pc, exit_status>> /\ UNCHANGED_Asm
         ELSE /\ \E s \in ServerStreams, elapsed_ms \in 0..MaxElapsed :
                   /\ stream' = s
                   /\ assembled' = Some(execute_query(s, elapsed_ms))
              /\ UNCHANGED <<pc, exit_status>>
    /\ UNCHANGED <<objects, result>>
    /\ UNCHANGED_Session

\* run_loop has ended: tui::run restores the terminal and returns its Ok
TuiReturn ==
    /\ pc = "exited"
    /\ ReturnOk
    /\ UNCHANGED <<objects, result>>
    /\ UNCHANGED_Session /\ UNCHANGED_Asm

NextMain ==
    \/ MainConnect
    \/ CliReadSource
    \/ CliExecuteAndPrint
    \/ CliReadLine
    \/ KeyEditorInput
    \/ KeySubmit
    \/ ExecuteReturn
    \/ KeyCtrlQ
    \/ TuiReturn

SpecMain == InitMain /\ [][NextMain]_vars

----------------------------------------------------------------------------
(* SpecDate: execute_query applied to a row holding one legacy DateTime      *)
(* value, for every day count within the bounds                             *)

DateTime(days, seconds_fragments) ==
    [type |-> "DateTime",
     val |-> Some([days |-> days, seconds_fragments |-> seconds_fragments])]

\* Ticks of 1/300 s: midnight, the last tick of the first second, one
\* second, and the last tick of the day
DayTicks == {0, 299, 300, 25919999}

DateStreams ==
    { Stream(<<Metadata(ColsA), Row(ColsA, <<DateTime(d, t)>>)>>, FALSE) :
        d \in (0 - MaxDaysBefore)..MaxDaysAfter, t \in DayTicks }

InitDate ==
    /\ InitApp
    /\ LoadObjectsOk
    /\ stream \in DateStreams
    /\ assembled = None
    /\ InTui

NextDate == Assemble

SpecDate == InitDate /\ [][NextDate]_vars

----------------------------------------------------------------------------
(* SpecScaled: execute_query applied to a row holding one Date, DateTime2   *)
(* or DateTimeOffset value                                                  *)

Date(days) == [type |-> "Date", val |-> Some([days |-> days])]
Time(increments, scale) == [increments |-> increments, scale |-> scale]
DateTime2(days, t) ==
    [type |-> "DateTime2", val |-> Some([date |-> [days |-> days], time |-> t])]
DateTimeOffset(days, t, offset) ==
    [type |-> "DateTimeOffset",
     val |-> Some([datetime2 |-> [date |-> [days |-> days], time |-> t],
                   offset |-> offset])]

\* Day counts: the first days from 0, and the counts of 1900-01-01, of
\* 1969-12-31, of 1970-01-01 and of the day after
DayCounts == (0..MaxDayCount) \cup {693595, 719161, 719162, 719163}

\* Times of day: midnight, one increment of 100 ns, 45 s in increments of
\* 100 ns, the last second of the day at scale 0 and the last millisecond
\* of the day at scale 3
ScaledTimes ==
    { Time(0, 7), Time(1, 7), Time(450000000, 7), Time(86399, 0),
      Time(86399999, 3) }

\* Offsets in minutes: UTC, +05:30, -08:00, one minute west, 59 minutes east
ZoneOffsets == {0, 330, -480, -1, 59}

ScaledValues ==
    { Date(d) : d \in DayCounts }
    \cup { DateTime2(d, t) : d \in DayCounts, t \in ScaledTimes }
    \cup { DateTimeOffset(d, t, o) : d \in DayCounts, t \in ScaledTimes,
                                      o \in ZoneOffsets }

ScaledStreams ==
    { Stream(<<Metadata(ColsA), Row(ColsA, <<v>>)>>, FALSE) : v \in ScaledValues }

InitScaled ==
    /\ InitApp
    /\ LoadObjectsOk
    /\ stream \in ScaledStreams
    /\ assembled = None
    /\ InTui

NextScaled == Assemble

SpecScaled == InitScaled /\ [][NextScaled]_vars

----------------------------------------------------------------------------
(* Reference notions for the properties of the object tree *)

\* Every node of the tree, as its path of child positions from the root
RECURSIVE AllPaths(_)
AllPaths(nodes) ==
    UNION { {<<k>>} \cup { <<k>> \o p : p \in AllPaths(nodes[k].children) } :
            k \in 1..Len(nodes) }

RECURSIVE NodeAt(_, _)
NodeAt(nodes, path) ==
    IF Len(path) = 1 THEN nodes[path[1]]
    ELSE NodeAt(nodes[path[1]].children, Tail(path))

\* A node is displayed when it is top-level or all its ancestors are expanded
Displayed(nodes, path) ==
    \A n \in 1..(Len(path) - 1) : NodeAt(nodes, SubSeq(path, 1, n)).expanded

\* Document order: a node before its descendants, siblings by position
DocBefore(p, q) ==
    \/ Len(p) < Len(q) /\ SubSeq(q, 1, Len(p)) = p
    \/ \E i \in 1..Min(Len(p), Len(q)) :
          /\ SubSeq(p, 1, i - 1) = SubSeq(q, 1, i - 1)
          /\ p[i] < q[i]

RECURSIVE InDocOrder(_)
InDocOrder(S) ==
    IF S = {} THEN <<>>
    ELSE LET first == CHOOSE p \in S : \A q \in S \ {p} : DocBefore(p, q)
         IN  <<first>> \o InDocOrder(S \ {first})

DisplayedPaths(nodes) ==
    InDocOrder({ p \in AllPaths(nodes) : Displayed(nodes, p) })

EntryOf(node) == <<node.depth, node.name, node.expanded, node.children # <<>>>>

\* What a node is apart from its children's contents
Shallow(node) == <<node.name, node.depth, node.expanded, Len(node.children)>>

----------------------------------------------------------------------------
(* Properties *)

\* C6: for every index i below the length of flatten_tree(objects), toggling
\* at i flips the expanded flag of exactly the node flatten_tree lists at
\* position i: the entries before i are unchanged, entry i keeps depth and
\* name and has expanded negated, and no other node of the tree changes.
C6_ToggleFlipsListedNode ==
    LET flat  == flatten_tree(objects)
        shown == DisplayedPaths(objects)
    IN  \A i \in 0..(Len(flat) - 1) :
          LET after == toggle_sidebar_node(objects, i)
              flat2 == flatten_tree(after)
          IN  /\ Len(flat2) > i
              /\ \A k \in 1..i : flat2[k] = flat[k]
              /\ flat2[i + 1] = <<flat[i + 1][1], flat[i + 1][2],
                                  ~flat[i + 1][3], flat[i + 1][4]>>
              /\ AllPaths(after) = AllPaths(objects)
              /\ \A q \in AllPaths(objects) :
                    Shallow(NodeAt(after, q)) =
                        IF q = shown[i + 1]
                        THEN Shallow(FlipExpanded(NodeAt(objects, q)))
                        ELSE Shallow(NodeAt(objects, q))

\* A schema below the second database has been expanded by a toggle while a
\* node displayed before it had its children displayed.
C6_Witness ==
    /\ sidebar_scroll >= 2
    /\ \E p \in AllPaths(objects) :
          /\ Len(p) = 2
          /\ NodeAt(objects, p).expanded
          /\ Displayed(objects, p)
          /\ get_flat_node_mut(objects, sidebar_scroll) = Some(p)

\* C7: flatten_tree lists, in document order, exactly the nodes that are
\* top-level or have only expanded ancestors, each with its depth, name,
\* expanded flag and has_children = (children is non-empty).
C7_FlattenListsDisplayedNodes ==
    LET flat  == flatten_tree(objects)
        shown == DisplayedPaths(objects)
    IN  /\ Len(flat) = Len(shown)
        /\ \A k \in 1..Len(shown) : flat[k] = EntryOf(NodeAt(objects, shown[k]))

\* A tree with a schema displayed below an expanded database, and with a
\* table hidden below a collapsed schema
C7_Witness ==
    /\ \E k \in 1..Len(flatten_tree(objects)) : flatten_tree(objects)[k][1] = 1
    /\ \E p \in AllPaths(objects) : Len(p) = 3 /\ ~Displayed(objects, p)
    /\ Len(flatten_tree(objects)) < Cardinality(AllPaths(objects))

\* C8: toggling the same flat index twice restores the tree and its
\* flattening; a collapsed database with one schema child flattens to one
\* entry, to two after toggling index 0 (the second at depth 1), and to one
\* again after toggling index 0 once more.
C8_ToggleTwiceRestores ==
    /\ \A i \in 0..MaxSidebarScroll :
          LET once  == toggle_sidebar_node(objects, i)
              twice == toggle_sidebar_node(once, i)
          IN  /\ twice = objects
              /\ flatten_tree(twice) = flatten_tree(objects)
              /\ i < Len(flatten_tree(objects)) => once # objects
    /\ (/\ Len(objects) = 1 /\ ~objects[1].expanded
        /\ Len(objects[1].children) = 1
        /\ objects[1].children[1].children = <<>>) =>
          LET once  == toggle_sidebar_node(objects, 0)
              twice == toggle_sidebar_node(once, 0)
          IN  /\ Len(flatten_tree(objects)) = 1
              /\ Len(flatten_tree(once)) = 2
              /\ flatten_tree(once)[2][1] = 1
              /\ Len(flatten_tree(twice)) = 1

\* The single database with one schema child, expanded by Enter at index 0
C8_Witness ==
    /\ Len(objects) = 1
    /\ Len(objects[1].children) = 1
    /\ objects[1].children[1].children = <<>>
    /\ objects[1].expanded
    /\ sidebar_scroll = 0


\* The non-message events of a sequence
RECURSIVE WithoutMessages(_)
WithoutMessages(events) ==
    IF events = <<>> THEN <<>>
    ELSE (IF Head(events).kind = "Message" THEN <<>> ELSE <<Head(events)>>)
         \o WithoutMessages(Tail(events))

\* The positions of the metadata events, ascending
RECURSIVE MetadataPositions(_, _)
MetadataPositions(events, i) ==
    IF i > Len(events) THEN <<>>
    ELSE (IF events[i].kind = "Metadata" THEN <<i>> ELSE <<>>)
         \o MetadataPositions(events, i + 1)

\* The decoded rows of the row events at positions from..to, in order
RECURSIVE RowsBetween(_, _, _)
RowsBetween(events, from, to) ==
    IF from > to THEN <<>>
    ELSE (IF events[from].kind = "Row" THEN <<format_row(events[from].vals)>> ELSE <<>>)
         \o RowsBetween(events, from + 1, to)

MetadataFirst(events) ==
    LET rest == WithoutMessages(events)
    IN  rest # <<>> /\ rest[1].kind = "Metadata"

EveryMetadataHasColumns(events) ==
    \A i \in 1..Len(events) : events[i].kind = "Metadata" => events[i].columns # <<>>

ExampleEvents ==
    <<Metadata(ColsA), Row(ColsA, <<I32(1)>>), Row(ColsA, <<I32(2)>>),
      Metadata(ColsAB), Row(ColsAB, <<I32(3), NullI32>>)>>

\* C4: when the first non-message event is a metadata event and every
\* metadata event announces at least one column, execute_query yields one
\* result set per metadata event, in order, the k-th with the columns of the
\* k-th metadata event and the rows that arrived before the next metadata
\* event; [metadata A, row, row, metadata B, row] yields sets of 2 and 1 rows.
C4_OneSetPerMetadata ==
    (/\ assembled # None
     /\ ~stream.fails
     /\ MetadataFirst(stream.events)
     /\ EveryMetadataHasColumns(stream.events)) =>
        LET sets == assembled[1].value.result_sets
            meta == MetadataPositions(stream.events, 1)
            last(k) == IF k < Len(meta) THEN meta[k + 1] - 1 ELSE Len(stream.events)
        IN  /\ assembled[1].ok
            /\ Len(sets) = Len(meta)
            /\ \A k \in 1..Len(meta) :
                  /\ sets[k].columns = stream.events[meta[k]].columns
                  /\ sets[k].rows = RowsBetween(stream.events, meta[k] + 1, last(k))
            /\ stream.events = ExampleEvents =>
                  /\ Len(sets) = 2
                  /\ sets[1].columns = ColsA /\ Len(sets[1].rows) = 2
                  /\ sets[2].columns = ColsAB /\ Len(sets[2].rows) = 1

\* The example batch has been assembled
C4_Witness ==
    /\ assembled # None
    /\ stream = Stream(ExampleEvents, FALSE)
    /\ Len(assembled[1].value.result_sets) = 2

\* C5: message events are discarded: a sequence assembles to the result sets
\* of the sequence without its messages, and an empty or message-only
\* sequence gives zero result sets and no error.
C5_MessagesDiscarded ==
    (assembled # None /\ ~stream.fails) =>
        LET rest == WithoutMessages(stream.events)
        IN  /\ assembled[1].ok
            /\ assembled[1].value.result_sets =
                  execute_query(Stream(rest, FALSE), 0).value.result_sets
            /\ rest = <<>> =>
                  /\ assembled[1].value.result_sets = <<>>
                  /\ assembled[1].value.error = None

\* A stream with a message between a row and the next metadata was assembled
C5_Witness ==
    /\ assembled # None
    /\ ~stream.fails
    /\ \E i \in 2..(Len(stream.events) - 1) :
          /\ stream.events[i].kind = "Message"
          /\ stream.events[i - 1].kind = "Row"
          /\ stream.events[i + 1].kind = "Metadata"
    /\ Len(assembled[1].value.result_sets) = 2


\* C1: whenever the result model carries an error it has no result sets: a
\* failed execution replaces the whole result model.
C1_ErrorHasNoResultSets ==
    result.error # None => result.result_sets = <<>>

\* A submitted statement failed, after a result with rows had been scrolled,
\* and its dispatch returned
C1_Witness ==
    /\ result.error = Some(<<"stream error">>)
    /\ pc = "poll"
    /\ result_scroll > 0

\* C2: query_running is true while execute_query runs and false whenever no
\* dispatch is in progress, after success and after failure; only the
\* submission of text that executes SQL sets it.
C2_RunningFlagBracketsExecution ==
    /\ [](query_running <=> pc = "executing")
    /\ [][(~query_running /\ query_running') =>
            /\ pc = "poll" /\ pc' = "executing"
            /\ Trim(editor) # <<>>
            /\ SubmittedSql # None
            /\ UNCHANGED result]_vars
    /\ [][(pc = "executing" /\ pc' # "executing") => ~query_running']_vars

\* A SQL-producing slash command is executing
C2_Witness ==
    /\ pc = "executing"
    /\ query_running
    /\ parse(editor) # None

\* C3: at most one execution is in flight, and from the start of an execution
\* to its return no key is dispatched and no other execution starts: the only
\* step is the return of that execution.
C3_OneExecutionNoInterleaving ==
    /\ [](in_flight <= 1 /\ (in_flight = 1 <=> pc = "executing"))
    /\ [][in_flight > 0 =>
            /\ in_flight' = 0
            /\ pc' = "poll"
            /\ UNCHANGED <<focus, sidebar_visible, editor, cursor, history, history_index,
                           current_result_set, expanded_mode, show_timing,
                           objects, sidebar_scroll>>]_vars

\* An execution is in flight after an earlier one completed
C3_Witness ==
    /\ in_flight = 1
    /\ Len(history) >= 2
    /\ result.result_sets # <<>>

\* C9: result_scroll is at most rows.len()-1 of the active result set (0 when
\* it has no rows) and result_col_scroll at most its column count minus 1 (0
\* when it has no columns).
C9_ScrollWithinActiveSet ==
    /\ result_scroll <= SatDec(Len(rows_for(result, current_result_set)))
    /\ result_col_scroll <= SatDec(Len(columns_for(result, current_result_set)))

\* C10: when the result has at least one result set, current_result_set is
\* at most result_sets.len()-1.
C10_CurrentSetWithinResult ==
    Len(result.result_sets) >= 1 => current_result_set <= Len(result.result_sets) - 1

\* C11: next_result_set and prev_result_set set both scroll offsets to 0
\* whenever they change current_result_set, and at the boundary (next on the
\* last set, prev on set 0, no result sets) they leave current_result_set and
\* both offsets unchanged; below the boundary they move by exactly one set.
C11_SetNavigationResetsScroll ==
    LET n == Len(result.result_sets)
    IN  PollReady =>
          /\ ~ENABLED (/\ next_result_set
                       /\ current_result_set' # current_result_set
                       /\ ~(result_scroll' = 0 /\ result_col_scroll' = 0))
          /\ ~ENABLED (/\ prev_result_set
                       /\ current_result_set' # current_result_set
                       /\ ~(result_scroll' = 0 /\ result_col_scroll' = 0))
          /\ (current_result_set + 1 >= n) =>
                ~ENABLED (next_result_set /\ ~UNCHANGED <<current_result_set,
                                             result_scroll, result_col_scroll>>)
          /\ (current_result_set = 0) =>
                ~ENABLED (prev_result_set /\ ~UNCHANGED <<current_result_set,
                                             result_scroll, result_col_scroll>>)
          /\ (current_result_set + 1 < n) =>
                /\ ENABLED next_result_set
                /\ ~ENABLED (next_result_set
                             /\ current_result_set' # current_result_set + 1)
          /\ (current_result_set > 0) =>
                /\ ENABLED prev_result_set
                /\ ~ENABLED (prev_result_set
                             /\ current_result_set' # current_result_set - 1)

\* The first set of a two-set result is active with its rows scrolled down:
\* next_result_set changes the set, prev_result_set is at its boundary
C11_Witness ==
    /\ PollReady
    /\ Len(result.result_sets) = 2
    /\ current_result_set = 0
    /\ result_scroll > 0

\* C12: with the Results pane focused and more than one result set, ']' moves
\* to the next result set and '[' to the previous one.
C12_BracketKeysNavigateSets ==
    (PollReady /\ focus = "Results" /\ Len(result.result_sets) > 1) =>
        /\ (current_result_set + 1 < Len(result.result_sets)) =>
              ENABLED (KeyResultsChar("]")
                       /\ current_result_set' = current_result_set + 1)
        /\ (current_result_set > 0) =>
              ENABLED (KeyResultsChar("[")
                       /\ current_result_set' = current_result_set - 1)

\* A text as the editor shows it once loaded: its lines, that is the text
\* itself up to the line feed that ends its last line
AsLoaded(text) ==
    IF text # <<>> /\ text[Len(text)] = "\n"
    THEN SubSeq(text, 1, Len(text) - 1) ELSE text

RECURSIVE PrevTimes(_, _)
PrevTimes(app, k) == IF k = 0 THEN app ELSE history_prev(PrevTimes(app, k - 1))

\* C13: with n >= 1 history entries and the cursor at live, the k-th
\* consecutive history_prev sets the cursor to entry n-k and loads that entry
\* into the editor for k <= n, and every further history_prev stays at entry
\* 0; with an empty history, history_prev changes neither the cursor nor the
\* editor.  After pushing A, B, C, four steps back show C, B, A, A.
C13_HistoryPrevWalksBack ==
    LET app == HistApp(history, history_index, editor)
        n   == Len(history)
    IN  /\ (n >= 1 /\ history_index = None) =>
              \A k \in 1..(MaxEntries + 2) :
                 LET i == IF k <= n THEN n - k ELSE 0
                     a == PrevTimes(app, k)
                 IN  /\ a.history_index = Some(i)
                     /\ a.editor = AsLoaded(history[i + 1])
                     /\ a.history = history
        /\ (n = 0) => history_prev(app) = app
        /\ (history = <<TextA, TextB, TextC>> /\ history_index = None) =>
              [k \in 1..4 |-> PrevTimes(app, k).editor] =
                  <<TextC, TextB, TextA, TextA>>

\* A, B, C were pushed and the walk back has reached A
C13_Witness ==
    /\ history = <<TextA, TextB, TextC>>
    /\ history_index = Some(0)
    /\ editor = TextA

\* C14: history_next with the cursor at entry i moves to entry i+1 and loads
\* its text when i is not the newest entry; at the newest entry it sets the
\* cursor to live and empties the editor; with the cursor at live it changes
\* neither the cursor nor the editor.
C14_HistoryNextWalksForward ==
    LET app == HistApp(history, history_index, editor)
        n   == Len(history)
        a   == history_next(app)
    IN  /\ (history_index # None /\ history_index[1] + 1 < n) =>
              /\ a.history_index = Some(history_index[1] + 1)
              /\ a.editor = AsLoaded(history[history_index[1] + 2])
              /\ a.history = history
        /\ (history_index # None /\ history_index[1] + 1 = n) =>
              /\ a.history_index = None
              /\ a.editor = <<>>
              /\ a.history = history
        /\ (history_index = None) => a = app

\* The walk forward has moved the cursor from the oldest of three entries to
\* the newest
C14_Witness ==
    /\ Len(history) = 3
    /\ history_index = Some(2)
    /\ editor = AsLoaded(history[3])
    /\ history[3] # history[2]

\* C15: history is an append-only log of submissions: a submission of text
\* that is not blank appends exactly that text as the newest entry and sets
\* the cursor to live, whatever the text is and whatever comes of it; a blank
\* submission changes nothing; no step removes, reorders or rewrites an entry.
C15_HistoryAppendOnly ==
    /\ [][\/ history' = history
          \/ /\ history' = Append(history, editor)
             /\ Trim(editor) # <<>>
             /\ PollReady
             /\ history_index' = None]_vars
    /\ [][pc = "executing" => history' = history /\ history_index' = None]_vars
    /\ [][KeySubmit =>
            IF Trim(editor) # <<>>
            THEN history' = Append(history, editor) /\ history_index' = None
            ELSE UNCHANGED vars]_vars

\* A slash command and then a statement that failed were submitted
C15_Witness ==
    /\ Len(history) = 2
    /\ parse(history[1]) # None
    /\ parse(history[2]) = None
    /\ result.error = Some(<<"stream error">>)
    /\ pc = "poll"

IsUse(t) == parse(t) # None /\ parse(t)[1].kind = "UseDatabase"

\* C16: current_database changes only when a \c <db> command was submitted
\* and its statement executed successfully, and it then becomes the
\* command's argument; a failed \c <db> and every other step leave it
\* unchanged.
C16_DatabaseChangesOnlyOnUse ==
    /\ [][current_database' # current_database =>
            /\ pc = "executing" /\ pc' = "poll"
            /\ IsUse(editor)
            /\ current_database' = parse(editor)[1].arg
            /\ result'.error = None]_vars
    /\ [][(pc = "executing" /\ IsUse(editor)) =>
            current_database' = IF result'.error = None
                                THEN parse(editor)[1].arg
                                ELSE current_database]_vars
    /\ [][(pc = "executing" /\ ~IsUse(editor)) => UNCHANGED current_database]_vars

\* \c db was submitted and its statement succeeded
C16_Witness ==
    /\ current_database = <<"d", "b">>
    /\ editor = UseText
    /\ pc = "poll"
    /\ result.error = None

\* Text that begins with the command prefix and is no command
PrefixedNoCommand(t) ==
    /\ Trim(t) # <<>>
    /\ Head(Trim(t)) = "\\"
    /\ parse(t) = None

\* The result model an execution can leave: a result, or the error alone
ExecutionOutcomes ==
    { IF execute_query(s, e).ok
      THEN execute_query(s, e).value
      ELSE QueryResult(<<>>, 0, Some(execute_query(s, e).err)) :
        s \in ServerStreams, e \in 0..MaxElapsed }

\* C17: submitted text that begins with the command prefix and does not parse
\* as a command (unknown token, \c without argument) is executed verbatim as
\* SQL like plain text: query_running is set and then cleared, the outcome
\* (result or error) replaces the result model, and current_database and the
\* display toggles are unchanged.
C17_UnparsedCommandRunsAsSql ==
    /\ [][(KeySubmit /\ PrefixedNoCommand(editor)) =>
            /\ SubmittedSql = Some(editor)
            /\ query_running' /\ pc' = "executing" /\ in_flight' = 1
            /\ UNCHANGED <<result, current_database, expanded_mode,
                           show_timing>>]_vars
    /\ [][(pc = "executing" /\ PrefixedNoCommand(editor)) =>
            /\ ~query_running' /\ pc' = "poll" /\ in_flight' = 0
            /\ result' \in ExecutionOutcomes
            /\ UNCHANGED <<current_database, expanded_mode, show_timing>>]_vars

\* \c without argument, typed after a space, was submitted and failed at the
\* server
C17_Witness ==
    /\ editor = <<" ">> \o TokC
    /\ history = <<editor>>
    /\ pc = "poll"
    /\ ~query_running
    /\ result.error = Some(<<"stream error">>)

\* The commands that take no argument, by token
KindOfToken ==
    { <<TokDt, "ListTables">>, <<TokDv, "ListViews">>, <<TokDi, "ListIndexes">>,
      <<TokDf, "ListFunctions">>, <<TokDs, "ListSchemas">>,
      <<TokDn, "ListDatabases">>, <<TokConninfo, "ConnInfo">>,
      <<TokX, "ToggleExpanded">>, <<TokTiming, "ToggleTiming">>,
      <<TokHelp, "Help">>, <<TokQ, "Quit">> }

CommandTokens == { TokD, TokC } \cup { p[1] : p \in KindOfToken }

\* The grammar: the trimmed line is a command token, alone or followed by
\* whitespace and the rest of the line
GrammarParse(t) ==
    LET line == Trim(t)
        ends == { j \in 1..Len(line) :
                    /\ SubSeq(line, 1, j) \in CommandTokens
                    /\ (j = Len(line) \/ IsWhitespace(line[j + 1])) }
    IN  IF ends = {} THEN None
        ELSE LET j     == CHOOSE e \in ends : TRUE
                 token == SubSeq(line, 1, j)
                 arg   == Trim(SubSeq(line, j + 1, Len(line)))
             IN  IF token = TokD
                 THEN (IF arg = <<>> THEN Some(Cmd("ListAll", <<>>))
                       ELSE Some(Cmd("Describe", arg)))
                 ELSE IF token = TokC
                 THEN (IF arg = <<>> THEN None ELSE Some(Cmd("UseDatabase", arg)))
                 ELSE Some(Cmd((CHOOSE p \in KindOfToken : p[1] = token)[2], <<>>))

\* C18: parse returns a command exactly when the trimmed input starts with a
\* backslash and its first whitespace-delimited token is one of the 13
\* command tokens (for \c, followed by a non-empty trimmed argument); \d gives
\* ListAll without argument and Describe(arg) with the trimmed argument, \c
\* gives UseDatabase(arg), every other input gives None.
C18_ParseFollowsGrammar ==
    /\ Cardinality(CommandTokens) = 13
    /\ parse(editor) = GrammarParse(editor)
    /\ parse(editor) # None => Head(Trim(editor)) = "\\"

\* The line " \d<tab>t " was submitted and runs as the description of t
C18_Witness ==
    /\ editor = <<" ">> \o TokD \o <<"\t", "t", " ">>
    /\ parse(editor) = Some(Cmd("Describe", <<"t">>))
    /\ pc = "executing"

\* Reads a SQL string literal from position i, just after its opening quote:
\* two quotes stand for one, a single quote closes the literal.
RECURSIVE ReadLiteral(_, _, _)
ReadLiteral(sql, i, body) ==
    IF i > Len(sql) THEN [closed |-> 0, body |-> body]
    ELSE IF sql[i] = "'"
         THEN IF i < Len(sql) /\ sql[i + 1] = "'"
              THEN ReadLiteral(sql, i + 2, Append(body, "'"))
              ELSE [closed |-> i, body |-> body]
         ELSE ReadLiteral(sql, i + 1, Append(body, sql[i]))

\* C19: the SQL produced for Describe embeds the argument between single
\* quotes with each single quote of the argument doubled, so the literal is
\* closed by the final quote the command adds and by no quote of the
\* argument, and reads back as the argument; a'b gives 'a''b'.
C19_DescribeQuotesArgument ==
    (parse(editor) # None /\ parse(editor)[1].kind = "Describe") =>
        LET arg == parse(editor)[1].arg
            act == to_action(parse(editor)[1], ConnectionInfo, current_database, User)
            sql == act.sql
            lit == ReadLiteral(sql, 3, <<>>)
        IN  /\ act.kind = "ExecuteSql"
            /\ SubmittedSql = Some(sql)
            /\ sql[2] = "'"
            /\ Len(sql) = Len(arg) + Cardinality({i \in 1..Len(arg) : arg[i] = "'"}) + 4
            /\ lit.closed = Len(sql) - 1
            /\ lit.body = arg
            /\ sql[Len(sql)] = " ORDER BY ORDINAL_POSITION"
            /\ (arg = <<"a", "'", "b">>) =>
                  SubSeq(sql, 2, Len(sql) - 1) = <<"'", "a", "'", "'", "b", "'">>

\* The description of a'b was submitted
C19_Witness ==
    /\ parse(editor) = Some(Cmd("Describe", <<"a", "'", "b">>))
    /\ pc = "executing"
    /\ history = <<editor>>

IsPayloadCommand(t) ==
    parse(t) # None /\ parse(t)[1].kind \in {"ConnInfo", "Help"}

\* C20: submitting \conninfo or \? executes no SQL and leaves the result
\* model with exactly one result set, the payload's columns and rows,
\* elapsed_ms 0 and no error, with both scroll offsets 0; for \conninfo the
\* rows are Server, Database, User in this order with the session's
\* connection info, current database and user at submission.
C20_PayloadCommandsShowOneSet ==
    [][(KeySubmit /\ IsPayloadCommand(editor)) =>
         /\ SubmittedSql = None
         /\ UNCHANGED <<query_running, pc, in_flight, current_database>>
         /\ ~query_running'
         /\ result_scroll' = 0 /\ result_col_scroll' = 0
         /\ result'.elapsed_ms = 0
         /\ result'.error = None
         /\ Len(result'.result_sets) = 1
         /\ IF parse(editor)[1].kind = "ConnInfo"
            THEN result'.result_sets[1] =
                   ResultSet(<< <<"Property">>, <<"Value">> >>,
                             << << <<"Server">>, ConnectionInfo >>,
                                << <<"Database">>, current_database >>,
                                << <<"User">>, User >> >>)
            ELSE /\ result'.result_sets[1].columns =
                       << <<"Command">>, <<"Description">> >>
                 /\ Len(result'.result_sets[1].rows) = 14
                 /\ \A k \in 1..14 : Len(result'.result_sets[1].rows[k]) = 2
                 /\ result'.result_sets[1].rows[13] =
                       << <<"\\?">>, <<"Show this help">> >>]_vars

\* \conninfo was submitted a second time, on database db, from the Results
\* pane
C20_Witness ==
    /\ parse(editor) = Some(Cmd("ConnInfo", <<>>))
    /\ Len(history) = 2
    /\ focus = "Results"
    /\ result_scroll = 0
    /\ Len(result.result_sets) = 1
    /\ result.result_sets[1].rows[2] = << <<"Database">>, <<"d", "b">> >>

----------------------------------------------------------------------------
(* The toggle commands *)

\* The one-set status result a toggle leaves: column Status, one row, one cell
StatusResult(label, on) ==
    QueryResult(<< ResultSet(<< <<"Status">> >>,
                             << << <<label, IF on THEN "ON" ELSE "OFF">> >> >>) >>,
                0, None)

IsToggle(t, kind) == parse(t) # None /\ parse(t)[1].kind = kind

\* C21: submitting \x (resp. \timing) negates expanded_mode (resp.
\* show_timing), leaves the other toggle unchanged, executes no SQL, and
\* replaces the result model with one result set of one column and one row
\* whose text reports the new value, ON exactly when the flag is now true;
\* submitting the same toggle twice restores the flag (the session of SpecCmd
\* starts with both flags off and submits one text repeatedly, so the flag is
\* on after an odd number of submissions and off after an even number).
C21_TogglesFlipAndReport ==
    /\ [][(KeySubmit /\ IsToggle(editor, "ToggleExpanded")) =>
            /\ expanded_mode' = ~expanded_mode
            /\ show_timing' = show_timing
            /\ SubmittedSql = None
            /\ UNCHANGED <<query_running, pc, in_flight>>
            /\ pc' = "poll"
            /\ result' = StatusResult("Expanded display is ", expanded_mode')]_vars
    /\ [][(KeySubmit /\ IsToggle(editor, "ToggleTiming")) =>
            /\ show_timing' = ~show_timing
            /\ expanded_mode' = expanded_mode
            /\ SubmittedSql = None
            /\ UNCHANGED <<query_running, pc, in_flight>>
            /\ pc' = "poll"
            /\ result' = StatusResult("Timing is ", show_timing')]_vars
    /\ [](IsToggle(editor, "ToggleExpanded") =>
            expanded_mode = (Len(history) % 2 = 1) /\ ~show_timing)
    /\ [](IsToggle(editor, "ToggleTiming") =>
            show_timing = (Len(history) % 2 = 1) /\ ~expanded_mode)

\* \timing was submitted twice: the flag is off again and the status says so
C21_Witness ==
    /\ IsToggle(editor, "ToggleTiming")
    /\ Len(history) = 2
    /\ ~show_timing
    /\ result = StatusResult("Timing is ", FALSE)

----------------------------------------------------------------------------
(* The keyword popup *)

\* A character of a word: an ASCII letter, an ASCII digit or the underscore
IsWordChar(c) ==
    \/ \E i \in 1..26 : c = AsciiLower[i] \/ c = AsciiUpper[i]
    \/ c \in AsciiDigits
    \/ c = "_"

\* The longest run of word characters that ends at position n of line
RECURSIVE RunEndingAt(_, _)
RunEndingAt(line, n) ==
    IF n > 0 /\ IsWordChar(line[n]) THEN Append(RunEndingAt(line, n - 1), line[n])
    ELSE <<>>

\* The run of word characters immediately before the cursor
RunBeforeCursor(text, cur) ==
    LET ls == editor_lines(text)
    IN  IF cur[1] >= Len(ls) THEN <<>>
        ELSE RunEndingAt(ls[cur[1] + 1], Min(cur[2], Len(ls[cur[1] + 1])))

\* The dictionary keywords that run is a prefix of, case ignored
KeywordsWithPrefix(run) ==
    LET Has(kw) == /\ Len(run) <= Len(kw)
                   /\ \A i \in 1..Len(run) :
                        to_ascii_uppercase_char(kw[i]) = to_ascii_uppercase_char(run[i])
    IN  SelectSeq(SQL_KEYWORDS, Has)

\* A key of the Editor pane after which handle_key calls update
UpdatingKey ==
    \/ \E c \in TypedChars : KeyEditorChar(c)
    \/ KeyEditorBackspace
    \/ KeyEditorLeft
    \/ ~autocomplete.active /\ (KeyEditorEsc \/ KeyEditorUp \/ KeyEditorDown
                                \/ KeyEditorEnter)

\* C22: after Autocomplete::update the popup is active exactly when the run
\* of word characters immediately before the cursor has length at least 2 and
\* is a case-insensitive prefix of at least one keyword, and the suggestions
\* are then exactly those keywords; otherwise the state is fully dismissed.
\* A run of length 1 never activates the popup.
C22_UpdateFollowsRunBeforeCursor ==
    [][UpdatingKey =>
         /\ pc' = "poll"
         /\ LET run == RunBeforeCursor(editor', cursor')
                kws == KeywordsWithPrefix(run)
            IN  IF Len(run) >= 2 /\ kws # <<>>
                THEN autocomplete'.active /\ autocomplete'.suggestions = kws
                ELSE autocomplete' = AutocompleteDefault]_vars

\* C23: in every state of the popup, it is active exactly when the suggestion
\* list is non-empty; the selection is an index into the suggestions when it
\* is active and 0 when it is not; Down on the last suggestion selects the
\* first and Up on the first selects the last, and otherwise they step by one.
C23_SelectionStaysInList ==
    /\ [](autocomplete.active <=> autocomplete.suggestions # <<>>)
    /\ [](IF autocomplete.active
          THEN autocomplete.selected \in 0..(Len(autocomplete.suggestions) - 1)
          ELSE autocomplete.selected = 0)
    /\ [][(KeyEditorDown /\ autocomplete.active) =>
            /\ autocomplete'.selected =
                 IF autocomplete.selected = Len(autocomplete.suggestions) - 1
                 THEN 0 ELSE autocomplete.selected + 1
            /\ autocomplete'.suggestions = autocomplete.suggestions]_vars
    /\ [][(KeyEditorUp /\ autocomplete.active) =>
            /\ autocomplete'.selected =
                 IF autocomplete.selected = 0
                 THEN Len(autocomplete.suggestions) - 1
                 ELSE autocomplete.selected - 1
            /\ autocomplete'.suggestions = autocomplete.suggestions]_vars

\* "se" was typed and the selection was moved from SELECT to SET, the last
\* of the two suggestions
C23_Witness ==
    /\ editor = <<"s", "e">>
    /\ autocomplete.active
    /\ Len(autocomplete.suggestions) = 2
    /\ autocomplete.selected = 1
    /\ selected_keyword(autocomplete) = Some(<<"S", "E", "T">>)

\* text with the n characters before the cursor replaced by kw
ReplaceBeforeCursor(text, cur, n, kw) ==
    LET ls   == editor_lines(text)
        line == ls[cur[1] + 1]
    IN  get_editor_text(ReplaceLine(ls, cur[1],
           << SubSeq(line, 1, cur[2] - n) \o kw \o SubSeq(line, cur[2] + 1, Len(line)) >>))

\* C24: with the popup active, Enter leaves the buffer equal to the previous
\* buffer with exactly the prefix-length characters before the cursor replaced
\* by the selected keyword, and dismisses the popup; Esc dismisses the popup
\* and leaves the buffer and the cursor unchanged.
C24_AcceptReplacesPrefix ==
    /\ [][(KeyEditorEnter /\ autocomplete.active) =>
            /\ cursor[2] >= Len(autocomplete.prefix)
            /\ editor' = ReplaceBeforeCursor(editor, cursor, Len(autocomplete.prefix),
                            autocomplete.suggestions[autocomplete.selected + 1])
            /\ autocomplete' = AutocompleteDefault]_vars
    /\ [][(KeyEditorEsc /\ autocomplete.active) =>
            /\ autocomplete' = AutocompleteDefault
            /\ UNCHANGED <<editor, cursor>>]_vars

----------------------------------------------------------------------------
(* Focus *)

\* C25: Tab (cycle_focus) moves the focus from Editor to Results, from
\* Results to Sidebar when the sidebar is visible and to Editor when it is
\* hidden, and from Sidebar to Editor; the focus is on Editor initially, and
\* cycle_focus changes no other field of the session.
C25_FocusCycles ==
    /\ focus = "Editor"
    /\ [][KeyTab =>
            /\ focus = "Editor" => focus' = "Results"
            /\ (focus = "Results" /\ sidebar_visible) => focus' = "Sidebar"
            /\ (focus = "Results" /\ ~sidebar_visible) => focus' = "Editor"
            /\ focus = "Sidebar" => focus' = "Editor"
            /\ UNCHANGED <<sidebar_visible, editor, result, objects, result_scroll,
                           result_col_scroll, sidebar_scroll, current_database,
                           query_running, history, history_index,
                           current_result_set, expanded_mode, show_timing, cursor,
                           autocomplete, show_help>>]_vars

\* Tab was pressed twice in a session that has submitted text: with the
\* sidebar visible the focus has reached the Sidebar
C25_Witness ==
    /\ focus = "Sidebar"
    /\ sidebar_visible
    /\ history # <<>>

----------------------------------------------------------------------------
(* The exit status *)

\* C26: the exit status of the process is non-zero only when connecting to
\* the server failed; a statement that fails leaves it zero in the TUI, at
\* the line-by-line prompt, and with file or piped input.
C26_StatementFailureLeavesStatusZero ==
    LET StatementFailed == \/ assembled # None /\ ~assembled[1].ok
                           \/ result.error # None
    IN  (exit_status # None /\ StatementFailed) => exit_status = Some(0)

----------------------------------------------------------------------------
(* The legacy DateTime decoder *)

IsLeapYear(y) == y % 4 = 0 /\ (y % 100 # 0 \/ y % 400 = 0)

DaysInMonth(y, m) ==
    IF m = 2 THEN (IF IsLeapYear(y) THEN 29 ELSE 28)
    ELSE IF m \in {4, 6, 9, 11} THEN 30 ELSE 31

ValidDate(ymd) ==
    /\ ymd[2] \in 1..12
    /\ ymd[3] \in 1..DaysInMonth(ymd[1], ymd[2])

\* The calendar day after ymd in the proleptic Gregorian calendar
DayAfter(ymd) ==
    IF ymd[3] < DaysInMonth(ymd[1], ymd[2]) THEN <<ymd[1], ymd[2], ymd[3] + 1>>
    ELSE IF ymd[2] < 12 THEN <<ymd[1], ymd[2] + 1, 1>>
    ELSE <<ymd[1] + 1, 1, 1>>

\* The date the decoder gives for the legacy day count d
LegacyDate(d) == days_to_ymd(-25567 + d)

\* The first ten characters of a decoded cell, read back as <<y, m, d>>
DigitValue(c) == (CHOOSE i \in 1..10 : DigitChars[i] = c) - 1

DatePartOf(cell) ==
    << DigitValue(cell[1]) * 1000 + DigitValue(cell[2]) * 100
         + DigitValue(cell[3]) * 10 + DigitValue(cell[4]),
       DigitValue(cell[6]) * 10 + DigitValue(cell[7]),
       DigitValue(cell[9]) * 10 + DigitValue(cell[10]) >>

\* The DateTime value of the stream and the cell execute_query made of it
StreamDateTime == stream.events[2].vals[1].val[1]
DecodedCell == assembled[1].value.result_sets[1].rows[1][1]

\* C28: for every legacy day count d within the bounds, negative counts, year
\* ends and leap days among them, the decoded date is a valid calendar date
\* (month 1..12, day within the month), the date decoded for d + 1 is the
\* calendar day after the one decoded for d, and d = 0 with zero ticks decodes
\* to 1900-01-01 00:00:00; hence the date is the proleptic Gregorian date d
\* days after 1900-01-01.
C28_LegacyDateIsGregorian ==
    assembled # None =>
        LET d    == StreamDateTime.days
            cell == DecodedCell
        IN  /\ Len(cell) = 19
            /\ cell[5] = "-" /\ cell[8] = "-" /\ cell[11] = " "
            /\ DatePartOf(cell) = LegacyDate(d)
            /\ ValidDate(DatePartOf(cell))
            /\ LegacyDate(d + 1) = DayAfter(DatePartOf(cell))
            /\ (d = 0 /\ StreamDateTime.seconds_fragments = 0) =>
                  cell = <<"1", "9", "0", "0", "-", "0", "1", "-", "0", "1", " ",
                           "0", "0", ":", "0", "0", ":", "0", "0">>

\* The leap day of 1904 was decoded, at the last tick of the day
C28_Witness ==
    /\ assembled # None
    /\ StreamDateTime.days = 1519
    /\ DecodedCell = <<"1", "9", "0", "4", "-", "0", "2", "-", "2", "9", " ",
                       "2", "3", ":", "5", "9", ":", "5", "9">>

----------------------------------------------------------------------------
(* Failure of the event stream *)

\* The streams of the session's server that fail after metadata and rows
FailingAfterEvents == { s \in ServerStreams : s.fails /\ s.events # <<>> }

\* C29: when the event stream fails after metadata and row events were
\* consumed, the outcome of the statement is a result with the error only:
\* no result set or row assembled before the failure is in the session's
\* result model, and the failure stays inside the key dispatch, which
\* returns to the loop with the running flag cleared.
C29_StreamFailureLeavesErrorOnly ==
    /\ [](\A s \in FailingAfterEvents, e \in 0..MaxElapsed :
            /\ ~execute_query(s, e).ok
            /\ execute_query(s, e).value.result_sets = <<>>)
    /\ [][pc = "executing" =>
            /\ pc' = "poll"
            /\ ~query_running'
            /\ \E s \in ServerStreams, e \in 0..MaxElapsed :
                 result' = IF s.fails
                           THEN QueryResult(<<>>, 0, Some(execute_query(s, e).err))
                           ELSE execute_query(s, e).value
            /\ result'.error # None =>
                 /\ result'.result_sets = <<>>
                 /\ rows_for(result', current_result_set') = <<>>]_vars

\* A result with rows had been scrolled, and the next statement failed: the
\* result model holds the error alone
C29_Witness ==
    /\ FailingAfterEvents # {}
    /\ pc = "poll"
    /\ result = QueryResult(<<>>, 0, Some(<<"stream error">>))
    /\ result_scroll > 0
    /\ Len(history) = 2

----------------------------------------------------------------------------
(* Rows of the result sets against the row events *)

\* The formatted rows of the row events of a stream, in arrival order
RowEventsOf(events) ==
    LET idx == SelectSeq([i \in 1..Len(events) |-> i],
                         LAMBDA i : events[i].kind = "Row")
    IN  [k \in 1..Len(idx) |-> format_row(events[idx[k]].vals)]

\* The rows of the result sets, one set after the other
RECURSIVE ConcatRows(_)
ConcatRows(sets) ==
    IF sets = <<>> THEN <<>>
    ELSE Head(sets).rows \o ConcatRows(Tail(sets))

\* C30: for every event sequence that ends without error, rows before any
\* metadata and metadata of zero columns included, the rows of all result
\* sets concatenated in order are the row events in arrival order, and no
\* result set has both an empty column list and an empty row list.
C30_RowsKeptInArrivalOrder ==
    (assembled # None /\ ~stream.fails) =>
        LET r == assembled[1] IN
        /\ r.ok
        /\ r.value.error = None
        /\ ConcatRows(r.value.result_sets) = RowEventsOf(stream.events)
        /\ \A i \in 1..Len(r.value.result_sets) :
             ~(/\ r.value.result_sets[i].columns = <<>>
               /\ r.value.result_sets[i].rows = <<>>)

\* A row arrived before any metadata, a metadata event announced zero
\* columns between two rows, and the rows are spread over two result sets
C30_Witness ==
    /\ assembled # None /\ ~stream.fails
    /\ Len(stream.events) >= 3
    /\ stream.events[1].kind = "Row"
    /\ stream.events[2] = Metadata(<<>>)
    /\ stream.events[3].kind = "Row"
    /\ Len(assembled[1].value.result_sets) = 2
    /\ Len(ConcatRows(assembled[1].value.result_sets)) >= 2

----------------------------------------------------------------------------
(* The end of the interaction loop *)

\* A key is dispatched and the loop does not come back to the poll
LoopEnds == pc = "poll" /\ pc' \notin {"poll", "executing"}

\* The dispatched key is a quit event: Ctrl+Q, or the submission of \q
QuitDispatched ==
    \/ KeyCtrlQ
    \/ KeySubmit /\ parse(editor) = Some(Cmd("Quit", <<>>))

\* C27: the loop polls and dispatches one key after the other; once a quit
\* event (Ctrl+Q, or the submission of \q) has been dispatched the loop has
\* ended and no further key is dispatched, and no other key ends the loop.
\* The exit flag is never set by any handler, so it ends no loop.
C27_OnlyQuitEndsLoop ==
    /\ [][(pc = "poll" \/ pc = "executing")]_vars
    /\ [][LoopEnds => QuitDispatched /\ pc' = "exited"]_vars

----------------------------------------------------------------------------
(* Children of the database nodes *)

\* The top-level position of the node at the sidebar offset, 0 when the offset
\* is past the flattening or on a node below the top level
TopLevelAtOffset ==
    LET found == get_flat_node_mut(objects, sidebar_scroll)
    IN  IF found # None /\ Len(found[1]) = 1 THEN found[1][1] ELSE 0

\* The database node at the sidebar offset is collapsed and its children were
\* never fetched (fetch_object_tree fetches those of master only)
NeverFetchedAtOffset ==
    /\ TopLevelAtOffset # 0
    /\ objects[TopLevelAtOffset].depth = 0
    /\ ~objects[TopLevelAtOffset].expanded
    /\ objects[TopLevelAtOffset].name # <<"master">>
    /\ objects[TopLevelAtOffset].children = <<>>

\* C31: the first time a depth-0 node whose children were never fetched is
\* expanded in the sidebar, its schema and table children are created: after
\* the expansion the node's children are populated.
C31_FirstExpansionPopulates ==
    [][(KeySidebarEnter /\ NeverFetchedAtOffset) =>
            /\ objects'[TopLevelAtOffset].expanded
            /\ objects'[TopLevelAtOffset].children # <<>>]_vars

\* C32: after the startup tree load every listed database is a collapsed
\* depth-0 node, and the node pre-loaded with schema and table children is the
\* one of the database the session was started with: every other database
\* node has an empty children list.  (Before the first submission
\* current_database is the database the session was started with.)
C32_PreloadedIsCurrentDatabase ==
    history = <<>> =>
        \A i \in 1..Len(objects) :
            /\ objects[i].depth = 0
            /\ ~objects[i].expanded
            /\ objects[i].name # current_database => objects[i].children = <<>>

----------------------------------------------------------------------------
(* The sidebar offset across a toggle *)

\* Depth and name of the rows of the flattening
RowIds(nodes) ==
    LET f == flatten_tree(nodes) IN [j \in 1..Len(f) |-> <<f[j][1], f[j][2]>>]

\* The rows up to and including the one at the offset k (all rows when the
\* offset is past the end)
RowsThrough(nodes, k) == SubSeq(RowIds(nodes), 1, Min(k + 1, Len(RowIds(nodes))))

\* C33 as stated: the offset is never re-clamped, and a toggle that changes
\* the flattened length leaves sidebar_scroll on a different node than the
\* one it pointed at before the toggle.
C33_ToggleMovesOffsetNode ==
    [][(KeySidebarEnter /\ Len(RowIds(objects')) # Len(RowIds(objects))) =>
            /\ sidebar_scroll' = sidebar_scroll
            /\ RowsThrough(objects', sidebar_scroll')
                 # RowsThrough(objects, sidebar_scroll)]_vars

\* C33, amended: the offset is read against the current flattening and is
\* never re-clamped (a toggle leaves it as it is, and Down moves it past the
\* end of the flattening); a toggle acts on the node at the offset and changes
\* only the rows after it, so after every toggle the offset points at the
\* same node as before; with the offset past the end a toggle changes nothing.
C33_ToggleKeepsOffsetNode ==
    /\ [][KeySidebarEnter =>
            /\ sidebar_scroll' = sidebar_scroll
            /\ RowsThrough(objects', sidebar_scroll')
                 = RowsThrough(objects, sidebar_scroll)
            /\ sidebar_scroll >= Len(RowIds(objects)) => objects' = objects]_vars
    /\ [][KeySidebarDown => sidebar_scroll' = sidebar_scroll + 1]_vars

\* The schema at offset 1 was toggled there, which changed the length of the
\* flattening: the offset is still on the schema
C33_Witness ==
    /\ focus = "Sidebar"
    /\ sidebar_scroll = 1
    /\ Len(objects) >= 1
    /\ objects[1].expanded
    /\ objects[1].children # <<>>
    /\ objects[1].children[1].expanded
    /\ objects[1].children[1].children # <<>>
    /\ RowIds(objects)[2] = <<1, objects[1].children[1].name>>
    /\ Len(RowIds(objects)) > sidebar_scroll + 1

----------------------------------------------------------------------------
(* History navigation: the loaded text *)

\* C34: immediately after a history navigation step that leaves the cursor at
\* entry i, the editor text is history[i] exactly, for every text that can be
\* submitted, multi-line text and text whose last line is empty included.
C34_LoadedTextIsEntry ==
    [][((CallHistoryPrev \/ CallHistoryNext) /\ history_index' # None) =>
            editor' = history'[history_index'[1] + 1]]_vars

----------------------------------------------------------------------------
(* Tab and the global keys with the popup open *)

\* C35: while the Editor is focused and the popup is active, Tab accepts the
\* selected suggestion as Enter does: the prefix is replaced by the keyword,
\* the popup is dismissed and the focus stays on the Editor.
C35_TabAcceptsLikeEnter ==
    [][(KeyTab /\ focus = "Editor" /\ autocomplete.active) =>
            LET ta == accept(TextArea(editor, cursor), autocomplete)
            IN  /\ editor' = ta.text
                /\ cursor' = ta.cursor
                /\ autocomplete' = AutocompleteDefault
                /\ focus' = "Editor"]_vars

\* C36: in every state of the session in which the popup is active, the
\* Editor pane has the focus and autocomplete.prefix is the run of word
\* characters immediately before the editor cursor, whatever keys were
\* pressed, the global keys included; hence an accept deletes characters that
\* are the displayed prefix.
C36_ActivePopupFollowsEditor ==
    (pc = "poll" /\ autocomplete.active) =>
        /\ focus = "Editor"
        /\ autocomplete.prefix = RunBeforeCursor(editor, cursor)

----------------------------------------------------------------------------
(* Focus and the visibility of the sidebar *)

\* C37: in every state reachable by cycle_focus and toggle_sidebar, the focus
\* is on the Sidebar only while the sidebar is visible: hiding the sidebar
\* while it has the focus moves the focus to Editor, and hiding or showing it
\* otherwise leaves the focus unchanged.
C37_SidebarFocusedOnlyWhenVisible ==
    /\ [](focus = "Sidebar" => sidebar_visible)
    /\ [][KeyCtrlD =>
            /\ sidebar_visible' = ~sidebar_visible
            /\ focus = "Sidebar" => focus' = "Editor"
            /\ focus # "Sidebar" => focus' = focus]_vars

\* The sidebar was hidden and Tab then went from Results back to Editor
\* without passing the Sidebar
C37_Witness ==
    /\ ~sidebar_visible
    /\ focus = "Editor"
    /\ pc = "poll"

----------------------------------------------------------------------------
(* The history cursor *)

\* C38: in every state reachable by push_history, history_prev and
\* history_next, the history cursor is live (None) or an index strictly below
\* the length of the history, so loading the entry at the cursor never reads
\* out of bounds; history navigation never changes the history list.
C38_HistoryCursorInBounds ==
    /\ [](history_index = None \/ history_index[1] \in 0..(Len(history) - 1))
    /\ [][(CallHistoryPrev \/ CallHistoryNext) => history' = history]_vars

\* The walk has come forward again to the newest of at least two entries,
\* the last index below the length
C38_Witness ==
    /\ Len(history) >= 2
    /\ history_index = Some(Len(history) - 1)
    /\ editor # AsLoaded(history[1])

----------------------------------------------------------------------------
(* Dates counted from 0001-01-01 and values with a zone *)

\* The value of the stream's only cell
StreamValue == stream.events[2].vals[1]

\* The date n days after 0001-01-01, in the calendar of days_to_ymd:
\* 1970-01-01 is 719162 days after 0001-01-01
DateOfDayCount(n) == days_to_ymd(n - 719162)

\* C40: date-only decoding takes the day count as the number of days elapsed
\* since 0001-01-01, in the calendar of the legacy encoding: day count 0
\* decodes to 0001-01-01, day count 719162 to 1970-01-01, and the day count
\* of 1900-01-01 to the date of legacy day count 0.
C40_DateCountsFromYearOne ==
    (assembled # None /\ StreamValue.type = "Date") =>
        LET d == StreamValue.val[1].days
        IN  /\ Len(DecodedCell) = 10
            /\ DatePartOf(DecodedCell) = DateOfDayCount(d)
            /\ d = 0 => DecodedCell = <<"0", "0", "0", "1", "-", "0", "1", "-", "0", "1">>
            /\ d = 719162 =>
                 DecodedCell = <<"1", "9", "7", "0", "-", "0", "1", "-", "0", "1">>
            /\ d = 693595 => DatePartOf(DecodedCell) = LegacyDate(0)

\* The zone suffix of an offset in minutes: the sign, '+' exactly when the
\* offset is not negative, then |offset| div 60 and |offset| mod 60 in two
\* digits each
ZoneSuffix(offset) ==
    LET a == IF offset >= 0 THEN offset ELSE -offset
    IN  <<IF offset >= 0 THEN "+" ELSE "-">> \o format_padded(a \div 60, 2)
        \o <<":">> \o format_padded(a % 60, 2)

\* C39: a date+time value with an offset decodes to the text the DateTime2
\* decoding gives for its date and time, the 7-digit fraction included when
\* it is not zero, then a space and the zone suffix.
C39_OffsetValueIsDateTime2PlusZone ==
    (assembled # None /\ StreamValue.type = "DateTimeOffset") =>
        DecodedCell = format_datetime2(StreamValue.val[1].datetime2)
                      \o <<" ">> \o ZoneSuffix(StreamValue.val[1].offset)


====
